---------------------------- MODULE Spec2Model ----------------------------
(***************************************************************************)
(* A model of the tool-call scorer of ha_voice_bench                       *)
(* (src/src/ha_voice_bench/scorers/tool_call.py).                          *)
(*                                                                         *)
(* Python values are modelled as tagged records, dicts as functions from   *)
(* keys to values, lists as sequences, strings as sequences of one-letter  *)
(* strings (so that strip/lower/str are computed, not assumed).  A raised  *)
(* Python exception is an outcome of its own: an operator that models a    *)
(* function which can raise returns the exception's name.                  *)
(***************************************************************************)
EXTENDS Integers, Sequences, FiniteSets, TLC

VARIABLES
    pc,              \* position inside score()
    target,          \* Target.text, as the JSON text's decoding outcome
    actual_calls,    \* what _extract_tool_calls returned
    expected_type,   \* state.metadata["expected_response_type"]
    raw,             \* state.metadata["alternative_expected_tool_calls"]
    expected_calls,  \* json.loads(target.text)
    results,         \* the dimension results kept so far
    overall,         \* C or I
    match_quality,
    match_reason,
    alternatives,    \* the decoded alternatives list
    alt_idx,         \* index of the next alternative the for loop visits
    score,           \* the returned Score, or NoScore
    exception,       \* the exception that left score(), or NoException
    fn_expected,     \* harness: expected argument of the function applied
    fn_actual,       \* harness: actual argument of the function applied
    fn_type,         \* harness: expected_type argument
    fn_out,          \* harness: what the function returned (or raised)
    file,            \* load_ha_test_cases: the file at file_path
    inventory_tier,  \* load_ha_test_cases: the tier asked for ("" for None)
    line_num,        \* load_ha_test_cases: lines read so far
    samples,         \* load_ha_test_cases: the samples built so far
    dataset,         \* load_ha_test_cases: where it is, what it gave
    _inventory_cache, \* prompt.py: the module-level cache
    disk,            \* the inventory files, by absolute path
    p1,              \* a prompt a caller got earlier and kept
    p2,              \* what the last build_system_prompt call gave
    tool_tier,       \* task.py: the tool_tier the task is built with
    tools            \* task.py: the names of the tools given to use_tools

vars == <<pc, target, actual_calls, expected_type, raw, expected_calls,
          results, overall, match_quality, match_reason, alternatives,
          alt_idx, score, exception, fn_expected, fn_actual, fn_type, fn_out,
          file, inventory_tier, line_num, samples, dataset,
          _inventory_cache, disk, p1, p2, tool_tier, tools>>

score_vars == <<pc, target, actual_calls, expected_type, raw, expected_calls,
                results, overall, match_quality, match_reason,
                alternatives, alt_idx, score, exception>>

fn_vars == <<fn_expected, fn_actual, fn_type, fn_out>>

load_vars == <<file, inventory_tier, line_num, samples, dataset>>

prompt_vars == <<_inventory_cache, disk, p1, p2>>

task_vars == <<tool_tier, tools>>

io_vars == <<load_vars, prompt_vars, task_vars>>

-----------------------------------------------------------------------------
(* Verdicts (tool_call.py:31-33).                                          *)
C == "C"
I == "I"
N == "N"

(* Exceptions the code can raise on the inputs modelled.                   *)
TypeError == "TypeError"
AttributeError == "AttributeError"
JSONDecodeError == "JSONDecodeError"
Exceptions == {TypeError, AttributeError, JSONDecodeError}
NoException == "none"

-----------------------------------------------------------------------------
(* Python values.  Every value is a record of the same four fields so that *)
(* values of different Python types can be compared and put in one set.    *)
(*   None         t = "None"                                               *)
(*   str          t = "str",   s  = its characters                         *)
(*   int          t = "int",   n  = its value                              *)
(*   float        t = "float", n  = its value in units of 1/Den            *)
(*   list         t = "list",  xs = its elements (scalars)                 *)
(* Den is a power of two, so every modelled float is a binary fraction     *)
(* that a double holds exactly and whose sums and differences are exact.   *)

Den == 2 * 2 * 2 * 2 * 2 * 2 * 2

PyNone == [t |-> "None", n |-> 0, s |-> <<>>, xs |-> <<>>]
PyStr(s) == [t |-> "str", n |-> 0, s |-> s, xs |-> <<>>]
PyInt(n) == [t |-> "int", n |-> n, s |-> <<>>, xs |-> <<>>]
PyFloat(u) == [t |-> "float", n |-> u, s |-> <<>>, xs |-> <<>>]
PyList(xs) == [t |-> "list", n |-> 0, s |-> <<>>, xs |-> xs]

IsNumber(v) == v.t \in {"int", "float"}
IsList(v) == v.t = "list"

(* The value of a number in units of 1/Den.                                *)
Units(v) == IF v.t = "int" THEN v.n * Den ELSE v.n

Abs(x) == IF x < 0 THEN -x ELSE x

(* The tolerance 0.01 of line 238, as the fraction TolNum/TolDen.          *)
TolNum == 1
TolDen == 100

-----------------------------------------------------------------------------
(* Characters and strings.                                                 *)

UpperAlpha == <<"A","B","C","D","E","F","G","H","I","J","K","L","M",
                "N","O","P","Q","R","S","T","U","V","W","X","Y","Z">>
LowerAlpha == <<"a","b","c","d","e","f","g","h","i","j","k","l","m",
                "n","o","p","q","r","s","t","u","v","w","x","y","z">>
Digits == <<"0","1","2","3","4","5","6","7","8","9">>

(* The characters str.strip() removes, of those a string of the model can  *)
(* hold: printable ASCII, tab, newline, form feed and carriage return.     *)
Whitespace == {" ", "\t", "\n", "\f", "\r"}

(* The characters in ASCII order: the order Python compares strings by.    *)
AsciiOrder == <<"\t", "\n", "\f", "\r", " ", "\"", "'", ",", "-", ".">>
              \o Digits \o <<":">> \o UpperAlpha
              \o <<"[", "\\", "]", "_">> \o LowerAlpha \o <<"{", "}">>

Ord(c) == CHOOSE i \in 1..Len(AsciiOrder) : AsciiOrder[i] = c

LowerChar(c) ==
    IF \E i \in 1..26 : UpperAlpha[i] = c
    THEN LowerAlpha[CHOOSE i \in 1..26 : UpperAlpha[i] = c]
    ELSE c

(* str.lower()                                                             *)
Lower(s) == [i \in 1..Len(s) |-> LowerChar(s[i])]

(* str.strip(): drop leading and trailing whitespace.                      *)
RECURSIVE LStrip(_)
LStrip(s) ==
    IF s # <<>> /\ Head(s) \in Whitespace THEN LStrip(Tail(s)) ELSE s

RECURSIVE RStrip(_)
RStrip(s) ==
    IF s # <<>> /\ s[Len(s)] \in Whitespace
    THEN RStrip(SubSeq(s, 1, Len(s) - 1))
    ELSE s

Strip(s) == RStrip(LStrip(s))

(* s < t as Python compares two strings.                                   *)
RECURSIVE StrLess(_, _)
StrLess(s, t) ==
    IF t = <<>> THEN FALSE
    ELSE IF s = <<>> THEN TRUE
    ELSE IF Head(s) # Head(t) THEN Ord(Head(s)) < Ord(Head(t))
    ELSE StrLess(Tail(s), Tail(t))

(* sorted() of a list of strings.                                          *)
RECURSIVE InsertStr(_, _)
InsertStr(x, sorted) ==
    IF sorted = <<>> THEN <<x>>
    ELSE IF StrLess(x, Head(sorted)) THEN <<x>> \o sorted
    ELSE <<Head(sorted)>> \o InsertStr(x, Tail(sorted))

RECURSIVE SortedStrs(_)
SortedStrs(xs) ==
    IF xs = <<>> THEN <<>>
    ELSE InsertStr(xs[Len(xs)], SortedStrs(SubSeq(xs, 1, Len(xs) - 1)))

-----------------------------------------------------------------------------
(* str(value).                                                             *)

RECURSIVE NatStr(_)
NatStr(n) ==
    IF n < 10 THEN <<Digits[n + 1]>>
    ELSE NatStr(n \div 10) \o <<Digits[(n % 10) + 1]>>

IntStr(n) == IF n < 0 THEN <<"-">> \o NatStr(-n) ELSE NatStr(n)

(* The decimal digits of f/Den, 0 <= f < Den: finite since Den is 2^k.     *)
RECURSIVE FracDigits(_)
FracDigits(f) ==
    IF f = 0 THEN <<>>
    ELSE <<Digits[((f * 10) \div Den) + 1]>> \o FracDigits((f * 10) % Den)

(* repr of a float that is a short binary fraction: its exact decimal      *)
(* expansion, with ".0" for a whole number.                                *)
FloatStr(u) ==
    LET a == Abs(u)
        frac == FracDigits(a % Den)
    IN (IF u < 0 THEN <<"-">> ELSE <<>>) \o NatStr(a \div Den) \o <<".">>
       \o (IF frac = <<>> THEN <<"0">> ELSE frac)

ScalarStr(v) ==
    CASE v.t = "str" -> v.s
      [] v.t = "int" -> IntStr(v.n)
      [] v.t = "float" -> FloatStr(v.n)
      [] OTHER -> <<"N", "o", "n", "e">>

(* The quote repr() puts around a str: double quotes when the text holds   *)
(* a single quote and no double quote, single quotes otherwise.            *)
ReprQuote(s) ==
    IF (\E i \in 1..Len(s) : s[i] = "'") /\ ~(\E i \in 1..Len(s) : s[i] = "\"")
    THEN "\"" ELSE "'"

(* One character as repr() writes it between the quotes: the backslash,    *)
(* the quote in use and the control characters are escaped.                *)
ReprChar(c, quote) ==
    CASE c = "\\" -> <<"\\", "\\">>
      [] c = "\t" -> <<"\\", "t">>
      [] c = "\n" -> <<"\\", "n">>
      [] c = "\r" -> <<"\\", "r">>
      [] c = "\f" -> <<"\\", "x", "0", "c">>
      [] c = quote -> <<"\\", c>>
      [] OTHER -> <<c>>

RECURSIVE ReprChars(_, _)
ReprChars(s, quote) ==
    IF s = <<>> THEN <<>>
    ELSE ReprChar(Head(s), quote) \o ReprChars(Tail(s), quote)

(* repr() of a list element: a string is quoted and escaped.               *)
ScalarRepr(v) ==
    IF v.t = "str"
    THEN LET quote == ReprQuote(v.s)
         IN  <<quote>> \o ReprChars(v.s, quote) \o <<quote>>
    ELSE ScalarStr(v)

RECURSIVE JoinReprs(_)
JoinReprs(xs) ==
    IF xs = <<>> THEN <<>>
    ELSE IF Len(xs) = 1 THEN ScalarRepr(xs[1])
    ELSE ScalarRepr(xs[1]) \o <<",", " ">> \o JoinReprs(Tail(xs))

Str(v) ==
    IF v.t = "list" THEN <<"[">> \o JoinReprs(v.xs) \o <<"]">>
    ELSE ScalarStr(v)

(* _normalize (tool_call.py:250-252)                                       *)
_normalize(value) == Lower(Strip(Str(value)))

-----------------------------------------------------------------------------
(* Dicts and calls.  A key is the sequence of the tokens it is spelled     *)
(* with, so that <<"name", "_any_of">> is the key "name_any_of".           *)

EmptyDict == [k \in {} |-> PyNone]

(* dict.get(key): None when the key is absent.                            *)
DictGet(d, key) == IF key \in DOMAIN d THEN d[key] ELSE PyNone

(* The dict {key: value}.                                                  *)
Arg(key, value) == [k \in {key} |-> value]

AnyOfSuffix == "_any_of"
RawKey == <<"_raw">>

(* key.endswith("_any_of") and key[:-7]                                    *)
EndsWithAnyOf(key) == key # <<>> /\ key[Len(key)] = AnyOfSuffix
BaseKey(key) == SubSeq(key, 1, Len(key) - 1)

(* JSON null / Python None as a call's name.                               *)
NullName == "<null>"

(* A call is {name, arguments}; has_arguments is FALSE for a call dict     *)
(* that has no "arguments" key.                                            *)
Call(name, arguments) ==
    [name |-> name, has_arguments |-> TRUE, arguments |-> arguments]
CallNoArgs(name) ==
    [name |-> name, has_arguments |-> FALSE, arguments |-> EmptyDict]

(* call.get("arguments", {})                                               *)
GetArguments(call) == IF call.has_arguments THEN call.arguments ELSE EmptyDict

-----------------------------------------------------------------------------
(* _tc_to_dict (tool_call.py:126-131).  A ToolCall has a function name,    *)
(* arguments that are a dict or something else (the text the provider      *)
(* could not parse), and a parse_error that is None ("") or a message.     *)

(* The characters of a token a key is spelled with.                        *)
TokenChars(token) ==
    CASE token = "name" -> <<"n", "a", "m", "e">>
      [] token = "domain" -> <<"d", "o", "m", "a", "i", "n">>
      [] token = "brightness" ->
             <<"b", "r", "i", "g", "h", "t", "n", "e", "s", "s">>
      [] token = "_raw" -> <<"_", "r", "a", "w">>
      [] token = "_any_of" -> <<"_", "a", "n", "y", "_", "o", "f">>
      [] OTHER -> <<token>>

RECURSIVE KeyChars(_)
KeyChars(key) ==
    IF key = <<>> THEN <<>> ELSE TokenChars(Head(key)) \o KeyChars(Tail(key))

(* Arguments that are a dict.  A dict writes its keys in the order they    *)
(* were inserted in, which a function does not hold: keys is that order,   *)
(* each key of d once.                                                     *)
DictArguments(keys, d) ==
    [is_dict |-> TRUE, dict |-> d, keys |-> keys, other |-> PyNone]

OtherArguments(v) ==
    [is_dict |-> FALSE, dict |-> EmptyDict, keys |-> <<>>, other |-> v]

ToolCall(function, arguments, parse_error) ==
    [function |-> function, arguments |-> arguments,
     parse_error |-> parse_error]

(* repr() of a dict's value.                                               *)
ValueRepr(v) == IF v.t = "list" THEN Str(v) ELSE ScalarRepr(v)

(* The items of str(dict): repr(key): repr(value), separated by ", ".      *)
RECURSIVE JoinItems(_, _)
JoinItems(keys, d) ==
    IF keys = <<>> THEN <<>>
    ELSE ScalarRepr(PyStr(KeyChars(Head(keys)))) \o <<":", " ">>
             \o ValueRepr(d[Head(keys)])
             \o (IF Len(keys) = 1 THEN <<>>
                 ELSE <<",", " ">> \o JoinItems(Tail(keys), d))

(* str(tc.arguments)                                                       *)
ArgumentsStr(arguments) ==
    IF arguments.is_dict
    THEN <<"{">> \o JoinItems(arguments.keys, arguments.dict) \o <<"}">>
    ELSE Str(arguments.other)

_tc_to_dict(tc) ==
    LET args == IF tc.arguments.is_dict THEN tc.arguments.dict ELSE EmptyDict
    IN  Call(tc.function,
             IF tc.parse_error # ""
             THEN Arg(RawKey, PyStr(ArgumentsStr(tc.arguments)))
             ELSE args)

-----------------------------------------------------------------------------
(* What json.loads(target.text) returned.  Only a list's items are read as *)
(* calls; of a str or a dict (whose iteration yields characters or keys,   *)
(* both str) only the length matters; of an int or bool only the value.    *)

JList(calls) == [kind |-> "list", n |-> 0, size |-> Len(calls), items |-> calls]
JDict(size) == [kind |-> "dict", n |-> 0, size |-> size, items |-> <<>>]
JStr(size) == [kind |-> "str", n |-> 0, size |-> size, items |-> <<>>]
JInt(n) == [kind |-> "int", n |-> n, size |-> 0, items |-> <<>>]
JBool(b) == [kind |-> "bool", n |-> IF b THEN 1 ELSE 0, size |-> 0, items |-> <<>>]
JNull == [kind |-> "null", n |-> 0, size |-> 0, items |-> <<>>]

(* bool(v): Python's truth value.                                          *)
Truthy(v) ==
    CASE v.kind \in {"list", "dict", "str"} -> v.size > 0
      [] v.kind \in {"int", "bool"} -> v.n # 0
      [] OTHER -> FALSE

(* Whether len(v) is defined; otherwise len(v) raises TypeError.           *)
HasLen(v) == v.kind \in {"list", "dict", "str"}

-----------------------------------------------------------------------------
(* VALID_TOOL_NAMES (tool_call.py:17-29)                                   *)
VALID_TOOL_NAMES ==
    {"HassTurnOn", "HassTurnOff", "HassLightSet", "HassSetPosition",
     "HassGetState", "HassClimateSetTemperature", "HassClimateGetTemperature",
     "HassGetCurrentTime", "HassGetCurrentDate", "HassGetWeather",
     "HassNevermind"}

(* query_tools (tool_call.py:143-149)                                      *)
query_tools ==
    {"HassGetState", "HassClimateGetTemperature", "HassGetWeather",
     "HassGetCurrentTime", "HassGetCurrentDate"}

(* tools.py:481-532: the tools of each tier, by name and in list order.   *)
MVP_TOOLS ==
    <<"HassTurnOn", "HassTurnOff", "HassLightSet", "HassSetPosition",
      "HassGetState", "HassClimateSetTemperature",
      "HassClimateGetTemperature", "HassGetCurrentTime",
      "HassGetCurrentDate", "HassGetWeather", "HassNevermind">>

FULL_TOOLS ==
    MVP_TOOLS \o
    <<"HassMediaPause", "HassMediaUnpause", "HassMediaNext",
      "HassMediaPrevious", "HassSetVolume", "HassMediaPlayerMute",
      "HassMediaPlayerUnmute", "HassSetVolumeRelative",
      "HassMediaSearchAndPlay", "HassFanSetSpeed", "HassVacuumStart",
      "HassVacuumReturnToBase", "HassLawnMowerStartMowing",
      "HassLawnMowerDock", "HassListAddItem", "HassListCompleteItem",
      "HassShoppingListAddItem", "HassShoppingListCompleteItem",
      "HassRespond", "HassBroadcast">>

(* get_ha_intent_tools(tier): the list, or the ValueError it raises.       *)
get_ha_intent_tools(tier) ==
    IF tier = "mvp" THEN [raised |-> NoException, tools |-> MVP_TOOLS]
    ELSE IF tier = "full" THEN [raised |-> NoException, tools |-> FULL_TOOLS]
    ELSE [raised |-> "ValueError", tools |-> <<>>]

(* The tool names of the model in the order Python sorts them.             *)
NameOrder ==
    <<"", "HassBroadcast", "HassClimateGetTemperature",
      "HassClimateSetTemperature", "HassFanSetSpeed", "HassGetCurrentDate",
      "HassGetCurrentTime", "HassGetState", "HassGetWeather",
      "HassLawnMowerDock", "HassLawnMowerStartMowing", "HassLightSet",
      "HassListAddItem", "HassListCompleteItem", "HassMediaNext",
      "HassMediaPause", "HassMediaPlayerMute", "HassMediaPlayerUnmute",
      "HassMediaPrevious", "HassMediaSearchAndPlay", "HassMediaUnpause",
      "HassNevermind", "HassRespond", "HassSetPosition", "HassSetVolume",
      "HassSetVolumeRelative", "HassShoppingListAddItem",
      "HassShoppingListCompleteItem", "HassTurnOff", "HassTurnOn",
      "HassVacuumReturnToBase", "HassVacuumStart", "MadeUpTool">>

NameRank(name) == CHOOSE i \in 1..Len(NameOrder) : NameOrder[i] = name

RECURSIVE InsertName(_, _)
InsertName(x, sorted) ==
    IF sorted = <<>> THEN <<x>>
    ELSE IF NameRank(x) < NameRank(Head(sorted)) THEN <<x>> \o sorted
    ELSE <<Head(sorted)>> \o InsertName(x, Tail(sorted))

RECURSIVE SortedNames(_)
SortedNames(names) ==
    IF names = <<>> THEN <<>>
    ELSE InsertName(names[Len(names)],
                    SortedNames(SubSeq(names, 1, Len(names) - 1)))

(* sorted(names) raises TypeError when two elements cannot be ordered:     *)
(* None against a str, or None against None.                               *)
SortRaises(names) ==
    Len(names) >= 2 /\ \E i \in 1..Len(names) : names[i] = NullName

Names(calls) == [i \in 1..Len(calls) |-> calls[i].name]

-----------------------------------------------------------------------------
(* _tool_call_matches (tool_call.py:212-247)                               *)

(* AnyOfKeyMatches comparing the strings as they are, without _normalize:  *)
(* the slip that makes _any_of case- and whitespace-sensitive.             *)
AnyOfKeyMatchesVerbatim(key, exp_value, act_args) ==
    LET act_value == DictGet(act_args, BaseKey(key))
    IN  IF act_value = PyNone THEN FALSE
        ELSE IF IsList(exp_value)
        THEN \E i \in 1..Len(exp_value.xs) :
                 Str(act_value) = Str(exp_value.xs[i])
        ELSE TRUE

(* AnyOfKeyMatches taking an expected value that is no list as a list of   *)
(* one element (line 228 without its isinstance test).                     *)
AnyOfKeyMatchesScalar(key, exp_value, act_args) ==
    LET act_value == DictGet(act_args, BaseKey(key))
    IN  IF act_value = PyNone THEN FALSE
        ELSE IF IsList(exp_value)
        THEN \E i \in 1..Len(exp_value.xs) :
                 _normalize(act_value) = _normalize(exp_value.xs[i])
        ELSE _normalize(act_value) = _normalize(exp_value)

(* Lines 223-231: a key that ends with _any_of.                            *)
AnyOfKeyMatches(key, exp_value, act_args) ==
    LET act_value == DictGet(act_args, BaseKey(key))
    IN  IF act_value = PyNone THEN FALSE
        ELSE IF IsList(exp_value)
        THEN \E i \in 1..Len(exp_value.xs) :
                 _normalize(act_value) = _normalize(exp_value.xs[i])
        ELSE TRUE

(* Line 241: sorted(str(v).lower() for v in xs)                            *)
SortedLowered(xs) == SortedStrs([i \in 1..Len(xs) |-> Lower(Str(xs[i]))])

(* PlainKeyMatches without the numeric branch of lines 237-239: numbers    *)
(* are then compared by their text, so 75 and 75.0 differ.                 *)
PlainKeyMatchesNoNumeric(key, exp_value, act_args) ==
    LET act_value == DictGet(act_args, key)
    IN  IF act_value = PyNone THEN FALSE
        ELSE IF IsList(exp_value) /\ IsList(act_value)
        THEN SortedLowered(exp_value.xs) = SortedLowered(act_value.xs)
        ELSE _normalize(act_value) = _normalize(exp_value)

(* PlainKeyMatches without the list branch of lines 240-242: two lists are *)
(* then compared by their normalized text, element order included.         *)
PlainKeyMatchesNoListBranch(key, exp_value, act_args) ==
    LET act_value == DictGet(act_args, key)
    IN  IF act_value = PyNone THEN FALSE
        ELSE IF IsNumber(exp_value) /\ IsNumber(act_value)
        THEN ~(Abs(Units(exp_value) - Units(act_value)) * TolDen > TolNum * Den)
        ELSE _normalize(act_value) = _normalize(exp_value)

(* PlainKeyMatches skipping a key the actual call lacks instead of failing *)
(* on it (lines 234-235 turned into a continue).                           *)
PlainKeyMatchesSkipMissing(key, exp_value, act_args) ==
    LET act_value == DictGet(act_args, key)
    IN  IF act_value = PyNone THEN TRUE
        ELSE IF IsNumber(exp_value) /\ IsNumber(act_value)
        THEN ~(Abs(Units(exp_value) - Units(act_value)) * TolDen > TolNum * Den)
        ELSE IF IsList(exp_value) /\ IsList(act_value)
        THEN SortedLowered(exp_value.xs) = SortedLowered(act_value.xs)
        ELSE _normalize(act_value) = _normalize(exp_value)

(* Lines 233-245: any other key.                                           *)
PlainKeyMatches(key, exp_value, act_args) ==
    LET act_value == DictGet(act_args, key)
    IN  IF act_value = PyNone THEN FALSE
        ELSE IF IsNumber(exp_value) /\ IsNumber(act_value)
        THEN ~(Abs(Units(exp_value) - Units(act_value)) * TolDen > TolNum * Den)
        ELSE IF IsList(exp_value) /\ IsList(act_value)
        THEN SortedLowered(exp_value.xs) = SortedLowered(act_value.xs)
        ELSE _normalize(act_value) = _normalize(exp_value)

KeyMatches(key, exp_value, act_args) ==
    IF EndsWithAnyOf(key)
    THEN AnyOfKeyMatches(key, exp_value, act_args)
    ELSE PlainKeyMatches(key, exp_value, act_args)

(* _tool_call_matches without the name test of lines 214-215: only the     *)
(* arguments are compared.                                                 *)
_tool_call_matches_any_name(expected, actual) ==
    LET exp_args == GetArguments(expected)
        act_args == GetArguments(actual)
    IN  IF DOMAIN exp_args = {} THEN TRUE
        ELSE \A key \in DOMAIN exp_args :
                 KeyMatches(key, exp_args[key], act_args)

(* _tool_call_matches where an expected call without arguments demands an *)
(* actual call without arguments (lines 218-219 comparing the two dicts).  *)
_tool_call_matches_strict_empty(expected, actual) ==
    IF expected.name # actual.name THEN FALSE
    ELSE LET exp_args == GetArguments(expected)
             act_args == GetArguments(actual)
         IN  IF DOMAIN exp_args = {} THEN DOMAIN act_args = {}
             ELSE \A key \in DOMAIN exp_args :
                      KeyMatches(key, exp_args[key], act_args)

_tool_call_matches(expected, actual) ==
    IF expected.name # actual.name THEN FALSE
    ELSE LET exp_args == GetArguments(expected)
             act_args == GetArguments(actual)
         IN  IF DOMAIN exp_args = {} THEN TRUE
             ELSE \A key \in DOMAIN exp_args :
                      KeyMatches(key, exp_args[key], act_args)

-----------------------------------------------------------------------------
(* The dimension checks.  Each returns a verdict, or the name of the       *)
(* exception it raises.                                                    *)

(* _check_response_type with all() for any() at line 150: a query_response *)
(* then needs every actual call to be a query tool.                        *)
_check_response_type_all_query(etype, expected, actual) ==
    CASE etype = "action_done" -> IF actual # <<>> THEN C ELSE I
      [] etype = "query_response" ->
            IF \A i \in 1..Len(actual) : actual[i].name \in query_tools
            THEN C ELSE I
      [] etype = "text_response" -> IF actual = <<>> THEN C ELSE I
      [] etype \in {"error", "clarification"} -> IF actual = <<>> THEN C ELSE I
      [] OTHER -> N

(* _check_response_type letting the expected calls decide for the types    *)
(* that want no call (lines 151-154): calls are accepted when calls are    *)
(* expected.                                                               *)
_check_response_type_by_expected(etype, expected, actual) ==
    CASE etype = "action_done" -> IF actual # <<>> THEN C ELSE I
      [] etype = "query_response" ->
            IF \E i \in 1..Len(actual) : actual[i].name \in query_tools
            THEN C ELSE I
      [] etype \in {"text_response", "error", "clarification"} ->
            IF actual = <<>> \/ Truthy(expected) THEN C ELSE I
      [] OTHER -> N

(* _check_response_type (tool_call.py:134-155)                             *)
_check_response_type(etype, expected, actual) ==
    CASE etype = "action_done" -> IF actual # <<>> THEN C ELSE I
      [] etype = "query_response" ->
            IF \E i \in 1..Len(actual) : actual[i].name \in query_tools
            THEN C ELSE I
      [] etype = "text_response" -> IF actual = <<>> THEN C ELSE I
      [] etype \in {"error", "clarification"} -> IF actual = <<>> THEN C ELSE I
      [] OTHER -> N

(* not call.get("name"): the name is None or the empty string.             *)
NameFalsy(name) == name = NullName \/ name = ""

(* _check_format_validity without the _raw test of line 165: a call whose  *)
(* arguments could not be parsed then counts as well-formed.               *)
_check_format_validity_names_only(actual) ==
    IF actual = <<>> THEN N
    ELSE IF \E i \in 1..Len(actual) : NameFalsy(actual[i].name)
    THEN I
    ELSE C

(* _check_format_validity (tool_call.py:158-167)                           *)
_check_format_validity(actual) ==
    IF actual = <<>> THEN N
    ELSE IF \E i \in 1..Len(actual) :
                \/ NameFalsy(actual[i].name)
                \/ RawKey \in DOMAIN GetArguments(actual[i])
    THEN I
    ELSE C

(* _check_call_count answering NotApplicable when nothing was expected and *)
(* nothing was called (line 173 returning N), as the other checks do.      *)
_check_call_count_empty_na(expected, actual) ==
    IF ~Truthy(expected) /\ actual = <<>> THEN N
    ELSE IF ~HasLen(expected) THEN TypeError
    ELSE IF expected.size = Len(actual) THEN C ELSE I

(* _check_call_count (tool_call.py:170-174)                                *)
_check_call_count(expected, actual) ==
    IF ~Truthy(expected) /\ actual = <<>> THEN C
    ELSE IF ~HasLen(expected) THEN TypeError
    ELSE IF expected.size = Len(actual) THEN C ELSE I

(* _check_tool_names comparing the two name lists as they come, without   *)
(* sorted() (lines 183-184): the verdict then depends on the call order.   *)
_check_tool_names_unsorted(expected, actual) ==
    IF ~Truthy(expected) THEN N
    ELSE IF actual = <<>> THEN I
    ELSE IF expected.kind # "list" THEN TypeError
    ELSE IF Names(expected.items) = Names(actual) THEN C ELSE I

(* _check_tool_names (tool_call.py:177-185)                                *)
_check_tool_names(expected, actual) ==
    IF ~Truthy(expected) THEN N
    ELSE IF actual = <<>> THEN I
    ELSE IF expected.kind # "list" THEN TypeError
    ELSE IF SortRaises(Names(expected.items)) THEN TypeError
    ELSE IF SortRaises(Names(actual)) THEN TypeError
    ELSE IF SortedNames(Names(expected.items)) = SortedNames(Names(actual))
    THEN C ELSE I

(* Lines 202-206: the first index of unmatched whose call matches exp,     *)
(* or 0 when there is none.                                                *)
FirstOf(unmatched, hits) ==
    IF \E j \in 1..Len(unmatched) : hits[j]
    THEN unmatched[CHOOSE j \in 1..Len(unmatched) :
            /\ hits[j]
            /\ \A h \in 1..(j - 1) : ~hits[h]]
    ELSE 0

FirstMatch(exp, actual, unmatched) ==
    FirstOf(unmatched,
            [j \in 1..Len(unmatched) |->
                _tool_call_matches(exp, actual[unmatched[j]])])

(* The scan without unmatched.remove(i) (line 204 dropped): an actual call *)
(* can then serve several expected calls.                                  *)
RemoveNothing(unmatched, i) == unmatched

(* list.remove(i)                                                          *)
Remove(unmatched, i) == SelectSeq(unmatched, LAMBDA x : x # i)

(* Lines 199-209: the loop over expected_calls from its k-th element on.   *)
RECURSIVE MatchFrom(_, _, _, _)

(* Lines 207-208 and the next round: i is what the scan found for the k-th *)
(* expected call.                                                          *)
MatchNext(expected, actual, k, unmatched, i) ==
    IF i = 0 THEN I
    ELSE MatchFrom(expected, actual, k + 1, Remove(unmatched, i))

MatchFrom(expected, actual, k, unmatched) ==
    IF k > Len(expected) THEN C
    ELSE MatchNext(expected, actual, k, unmatched,
                   FirstMatch(expected[k], actual, unmatched))

(* _check_arguments (tool_call.py:188-209)                                 *)
_check_arguments(expected, actual) ==
    IF ~Truthy(expected) THEN N
    ELSE IF ~HasLen(expected) THEN TypeError
    ELSE IF expected.size # Len(actual) THEN I
    ELSE IF expected.kind # "list" THEN AttributeError
    ELSE MatchFrom(expected.items, actual, 1, [i \in 1..Len(actual) |-> i])

(* _check_no_hallucinated_tools with the tools the task exposes as the     *)
(* allow-list, in place of the module constant of line 261.                *)
_check_no_hallucinated_tools_exposed(actual) ==
    IF actual = <<>> THEN N
    ELSE IF \E i \in 1..Len(actual) :
                /\ ~NameFalsy(actual[i].name)
                /\ \A k \in 1..Len(tools) : tools[k] # actual[i].name
    THEN I
    ELSE C

(* _check_no_hallucinated_tools (tool_call.py:255-263)                     *)
_check_no_hallucinated_tools(actual) ==
    IF actual = <<>> THEN N
    ELSE IF \E i \in 1..Len(actual) :
                /\ ~NameFalsy(actual[i].name)
                /\ actual[i].name \notin VALID_TOOL_NAMES
    THEN I
    ELSE C

-----------------------------------------------------------------------------
(* _score_dimensions (tool_call.py:90-103).  The dict display evaluates    *)
(* the six checks in order; the first exception leaves the function.       *)

Dimensions ==
    <<"response_type", "format_valid", "call_count", "tool_name", "args",
      "no_hallucinated_tools">>

DimensionSet == {Dimensions[i] : i \in 1..Len(Dimensions)}

Checks(expected, actual, etype) ==
    [response_type |-> _check_response_type(etype, expected, actual),
     format_valid |-> _check_format_validity(actual),
     call_count |-> _check_call_count(expected, actual),
     tool_name |-> _check_tool_names(expected, actual),
     args |-> _check_arguments(expected, actual),
     no_hallucinated_tools |-> _check_no_hallucinated_tools(actual)]

(* The results of a call that raised: no dict was built.                   *)
NoResults == [d \in DimensionSet |-> "?"]

(* [raised |-> the exception or NoException, dims |-> the dict returned]   *)
(* The dict of the six checks, or the exception of the first check, in    *)
(* the order of the dict literal, that raised.                             *)
DimsOrRaised(checks) ==
    LET bad == {i \in 1..Len(Dimensions) : checks[Dimensions[i]] \in Exceptions}
    IN  IF bad = {}
        THEN [raised |-> NoException, dims |-> checks]
        ELSE [raised |-> checks[Dimensions[CHOOSE i \in bad :
                                               \A j \in bad : i <= j]],
              dims |-> NoResults]

_score_dimensions(expected, actual, etype) ==
    DimsOrRaised(Checks(expected, actual, etype))

(* AllApplicableCorrect without the filter on N (lines 51 and 71 dropped): *)
(* a dimension that does not apply then counts as a failure.               *)
AllCorrectUnfiltered(dims) == \A d \in DimensionSet : dims[d] = C

(* Lines 51-52 and 71-72: all(v == C for v in applicable.values())         *)
AllApplicableCorrect(dims) == \A d \in DimensionSet : dims[d] # N => dims[d] = C


-----------------------------------------------------------------------------
(* Alternatives (tool_call.py:58-69).  An alternative is a dict with the   *)
(* optional keys tool_calls, quality and reason, or a bare list of calls.  *)

AltDict(keys, calls, quality, reason) ==
    [is_dict |-> TRUE, keys |-> keys, tool_calls |-> calls,
     quality |-> quality, reason |-> reason]
AltList(calls) ==
    [is_dict |-> FALSE, keys |-> {}, tool_calls |-> calls,
     quality |-> "", reason |-> ""]

(* Lines 61-69: alt_calls, alt_quality, alt_reason.                        *)
AltCalls(alt) ==
    IF alt.is_dict
    THEN IF "tool_calls" \in alt.keys THEN alt.tool_calls ELSE <<>>
    ELSE alt.tool_calls
AltQuality(alt) ==
    IF alt.is_dict
    THEN IF "quality" \in alt.keys THEN alt.quality ELSE "acceptable"
    ELSE "acceptable"
AltReason(alt) ==
    IF alt.is_dict
    THEN IF "reason" \in alt.keys THEN alt.reason ELSE ""
    ELSE ""

(* The metadata value: a list, or a str holding JSON (or not).             *)
RawList(alts) == [is_str |-> FALSE, valid |-> TRUE, alts |-> alts]
RawStr(alts) == [is_str |-> TRUE, valid |-> TRUE, alts |-> alts]
RawBadStr == [is_str |-> TRUE, valid |-> FALSE, alts |-> <<>>]

(* Target.text: JSON text decoding to value, or text that is not JSON.     *)
JsonText(value) == [valid |-> TRUE, value |-> value]
BadText == [valid |-> FALSE, value |-> JNull]

-----------------------------------------------------------------------------
(* The Score and its explanation.  The explanation is kept as its lines,   *)
(* each line as the values its f-string formats.                           *)

Line(kind, text, n, name, arguments, letter) ==
    [kind |-> kind, text |-> text, n |-> n, name |-> name,
     arguments |-> arguments, letter |-> letter]
TextLine(kind, text) == Line(kind, text, 0, "", EmptyDict, "")
CountLine(kind, n) == Line(kind, "", n, "", EmptyDict, "")
CallLine(call) == Line("call", "", 0, call.name, GetArguments(call), "")

(* Letter with two cases only (line 291 without its inner conditional): a  *)
(* dimension that does not apply is then printed like a failed one.        *)
LetterTwoWay(v) == IF v = C THEN "C" ELSE "I"

(* Line 291: the letter, the name and the verdict of one dimension.        *)
Letter(v) == IF v = C THEN "C" ELSE IF v = I THEN "I" ELSE "-"
CheckLine(k, v) == Line("check", v, 0, k, EmptyDict, Letter(v))

CallLines(calls) == [i \in 1..Len(calls) |-> CallLine(calls[i])]

(* _build_explanation (tool_call.py:271-293)                               *)
(* [raised |-> exception or NoException, lines |-> the lines joined]       *)
_build_explanation(expected, actual, dims, quality, reason) ==
    IF ~HasLen(expected)
    THEN [raised |-> TypeError, lines |-> <<>>]
    ELSE IF expected.kind # "list" /\ expected.size > 0
    THEN [raised |-> AttributeError, lines |-> <<>>]
    ELSE [raised |-> NoException,
          lines |->
            <<TextLine("MATCH_QUALITY", quality)>>
            \o (IF reason # "" THEN <<TextLine("MATCH_REASON", reason)>>
                ELSE <<>>)
            \o <<CountLine("Expected", expected.size)>>
            \o CallLines(expected.items)
            \o <<CountLine("Got", Len(actual))>>
            \o CallLines(actual)
            \o <<TextLine("blank", ""), TextLine("Checks:", "")>>
            \o [i \in 1..Len(Dimensions) |->
                    CheckLine(Dimensions[i], dims[Dimensions[i]])]]

(* _serialize_actual_calls (tool_call.py:266-268)                          *)
_serialize_actual_calls(actual) ==
    [i \in 1..Len(actual) |->
        [name |-> actual[i].name, arguments |-> GetArguments(actual[i])]]

(* Score.answer: the empty string, or json.dumps of the serialized calls.  *)
EmptyAnswer == [is_json |-> FALSE, calls |-> <<>>]
JsonAnswer(calls) == [is_json |-> TRUE, calls |-> calls]

MakeScore(value, answer, explanation) ==
    [value |-> value, answer |-> answer, explanation |-> explanation]

(* _error_score (tool_call.py:296-302)                                     *)
_error_score(message) ==
    MakeScore(I, EmptyAnswer, <<TextLine("Scoring error", message)>>)

NoScore == MakeScore("?", EmptyAnswer, <<>>)
Unset == [kind |-> "unset", n |-> 0, size |-> 0, items |-> <<>>]

-----------------------------------------------------------------------------
(* score() (tool_call.py:40-85) as a state machine.                        *)

(* Lines 41-45: json.loads(target.text).                                   *)
Parse ==
    /\ pc = "start"
    /\ IF target.valid
       THEN /\ expected_calls' = target.value
            /\ pc' = "primary"
            /\ score' = score
       ELSE /\ score' = _error_score("Target parse error")
            /\ pc' = "done"
            /\ expected_calls' = expected_calls
    /\ UNCHANGED <<target, actual_calls, expected_type, raw, results, overall,
                   match_quality, match_reason, alternatives, alt_idx,
                   exception>>
    /\ UNCHANGED fn_vars
    /\ UNCHANGED io_vars

(* ScorePrimary without the test of line 57: the alternatives are read     *)
(* whether the primary set passed or not.                                  *)
ScorePrimaryAlwaysLoads ==
    /\ pc = "primary"
    /\ LET r == _score_dimensions(expected_calls, actual_calls, expected_type)
       IN  IF r.raised # NoException
           THEN /\ exception' = r.raised
                /\ pc' = "raised"
                /\ UNCHANGED <<results, overall, match_quality, match_reason>>
           ELSE /\ results' = r.dims
                /\ overall' = IF AllApplicableCorrect(r.dims) THEN C ELSE I
                /\ match_quality' = "optimal"
                /\ match_reason' = ""
                /\ pc' = "load"
                /\ exception' = exception
    /\ UNCHANGED <<target, actual_calls, expected_type, raw, expected_calls,
                   alternatives, alt_idx, score>>
    /\ UNCHANGED fn_vars
    /\ UNCHANGED io_vars

(* Lines 50-57: the primary expected set.                                  *)
ScorePrimary ==
    /\ pc = "primary"
    /\ LET r == _score_dimensions(expected_calls, actual_calls, expected_type)
       IN  IF r.raised # NoException
           THEN /\ exception' = r.raised
                /\ pc' = "raised"
                /\ UNCHANGED <<results, overall, match_quality, match_reason>>
           ELSE /\ results' = r.dims
                /\ overall' = IF AllApplicableCorrect(r.dims) THEN C ELSE I
                /\ match_quality' = "optimal"
                /\ match_reason' = ""
                /\ pc' = IF AllApplicableCorrect(r.dims)
                         THEN "explain" ELSE "load"
                /\ exception' = exception
    /\ UNCHANGED <<target, actual_calls, expected_type, raw, expected_calls,
                   alternatives, alt_idx, score>>
    /\ UNCHANGED fn_vars
    /\ UNCHANGED io_vars

(* Lines 58-59: read and decode the alternatives.                          *)
LoadAlternatives ==
    /\ pc = "load"
    /\ IF raw.is_str /\ ~raw.valid
       THEN /\ exception' = JSONDecodeError
            /\ pc' = "raised"
            /\ UNCHANGED <<alternatives, alt_idx>>
       ELSE /\ alternatives' = raw.alts
            /\ alt_idx' = 1
            /\ pc' = "alts"
            /\ exception' = exception
    /\ UNCHANGED <<target, actual_calls, expected_type, raw, expected_calls,
                   results, overall, match_quality, match_reason, score>>
    /\ UNCHANGED fn_vars
    /\ UNCHANGED io_vars

(* TryAlternative without the break of line 77: the loop goes on after a   *)
(* passing alternative, and a later passing one overrides it.              *)
TryAlternativeNoBreak ==
    /\ pc = "alts"
    /\ alt_idx <= Len(alternatives)
    /\ LET alt == alternatives[alt_idx]
           r == _score_dimensions(JList(AltCalls(alt)), actual_calls,
                                  expected_type)
       IN  IF r.raised # NoException
           THEN /\ exception' = r.raised
                /\ pc' = "raised"
                /\ UNCHANGED <<results, overall, match_quality, match_reason,
                               alt_idx>>
           ELSE IF AllApplicableCorrect(r.dims)
           THEN /\ overall' = C
                /\ results' = r.dims
                /\ match_quality' = AltQuality(alt)
                /\ match_reason' = AltReason(alt)
                /\ alt_idx' = alt_idx + 1
                /\ UNCHANGED <<pc, exception>>
           ELSE /\ alt_idx' = alt_idx + 1
                /\ UNCHANGED <<results, overall, match_quality, match_reason,
                               pc, exception>>
    /\ UNCHANGED <<target, actual_calls, expected_type, raw, expected_calls,
                   alternatives, score>>
    /\ UNCHANGED fn_vars
    /\ UNCHANGED io_vars

(* TryAlternative assigning match_quality and match_reason before the test *)
(* of line 72, so that a failing alternative leaves its label behind.      *)
TryAlternativeEagerLabel ==
    /\ pc = "alts"
    /\ alt_idx <= Len(alternatives)
    /\ LET alt == alternatives[alt_idx]
           r == _score_dimensions(JList(AltCalls(alt)), actual_calls,
                                  expected_type)
       IN  IF r.raised # NoException
           THEN /\ exception' = r.raised
                /\ pc' = "raised"
                /\ UNCHANGED <<results, overall, match_quality, match_reason,
                               alt_idx>>
           ELSE IF AllApplicableCorrect(r.dims)
           THEN /\ overall' = C
                /\ results' = r.dims
                /\ match_quality' = AltQuality(alt)
                /\ match_reason' = AltReason(alt)
                /\ pc' = "explain"
                /\ UNCHANGED <<alt_idx, exception>>
           ELSE /\ alt_idx' = alt_idx + 1
                /\ match_quality' = AltQuality(alt)
                /\ match_reason' = AltReason(alt)
                /\ UNCHANGED <<results, overall, pc, exception>>
    /\ UNCHANGED <<target, actual_calls, expected_type, raw, expected_calls,
                   alternatives, score>>
    /\ UNCHANGED fn_vars
    /\ UNCHANGED io_vars

(* TryAlternative pruning an alternative that failed from the list it      *)
(* iterates (alternatives.remove(alt)): when the metadata value is a list, *)
(* that list is the sample's own, and the sample is changed by scoring.    *)
TryAlternativePruning ==
    /\ pc = "alts"
    /\ alt_idx <= Len(alternatives)
    /\ LET alt == alternatives[alt_idx]
           r == _score_dimensions(JList(AltCalls(alt)), actual_calls,
                                  expected_type)
           rest == [i \in 1..(Len(alternatives) - 1) |->
                       IF i < alt_idx THEN alternatives[i]
                       ELSE alternatives[i + 1]]
       IN  IF r.raised # NoException
           THEN /\ exception' = r.raised
                /\ pc' = "raised"
                /\ UNCHANGED <<results, overall, match_quality, match_reason,
                               alt_idx, alternatives, raw>>
           ELSE IF AllApplicableCorrect(r.dims)
           THEN /\ overall' = C
                /\ results' = r.dims
                /\ match_quality' = AltQuality(alt)
                /\ match_reason' = AltReason(alt)
                /\ pc' = "explain"
                /\ UNCHANGED <<alt_idx, exception, alternatives, raw>>
           ELSE /\ alternatives' = rest
                /\ raw' = IF raw.is_str THEN raw ELSE [raw EXCEPT !.alts = rest]
                /\ UNCHANGED <<results, overall, match_quality, match_reason,
                               pc, exception, alt_idx>>
    /\ UNCHANGED <<target, actual_calls, expected_type, expected_calls, score>>
    /\ UNCHANGED fn_vars
    /\ UNCHANGED io_vars

(* Lines 60-77: one turn of the for loop.                                  *)
TryAlternative ==
    /\ pc = "alts"
    /\ alt_idx <= Len(alternatives)
    /\ LET alt == alternatives[alt_idx]
           r == _score_dimensions(JList(AltCalls(alt)), actual_calls,
                                  expected_type)
       IN  IF r.raised # NoException
           THEN /\ exception' = r.raised
                /\ pc' = "raised"
                /\ UNCHANGED <<results, overall, match_quality, match_reason,
                               alt_idx>>
           ELSE IF AllApplicableCorrect(r.dims)
           THEN /\ overall' = C
                /\ results' = r.dims
                /\ match_quality' = AltQuality(alt)
                /\ match_reason' = AltReason(alt)
                /\ pc' = "explain"
                /\ UNCHANGED <<alt_idx, exception>>
           ELSE /\ alt_idx' = alt_idx + 1
                /\ UNCHANGED <<results, overall, match_quality, match_reason,
                               pc, exception>>
    /\ UNCHANGED <<target, actual_calls, expected_type, raw, expected_calls,
                   alternatives, score>>
    /\ UNCHANGED fn_vars
    /\ UNCHANGED io_vars

(* The for loop ends with no alternative adopted.                          *)
AlternativesExhausted ==
    /\ pc = "alts"
    /\ alt_idx > Len(alternatives)
    /\ pc' = "explain"
    /\ UNCHANGED <<target, actual_calls, expected_type, raw, expected_calls,
                   results, overall, match_quality, match_reason,
                   alternatives, alt_idx, score, exception>>
    /\ UNCHANGED fn_vars
    /\ UNCHANGED io_vars

(* Return giving _build_explanation the calls of the adopted alternative   *)
(* in place of expected_calls (line 79).                                   *)
ReturnAdoptedCalls ==
    /\ pc = "explain"
    /\ LET shown == IF overall = C /\ alt_idx >= 1
                    THEN JList(AltCalls(alternatives[alt_idx]))
                    ELSE expected_calls
           e == _build_explanation(shown, actual_calls, results,
                                   match_quality, match_reason)
       IN  IF e.raised # NoException
           THEN /\ exception' = e.raised
                /\ pc' = "raised"
                /\ score' = score
           ELSE /\ score' = MakeScore(overall,
                               JsonAnswer(_serialize_actual_calls(actual_calls)),
                               e.lines)
                /\ pc' = "done"
                /\ exception' = exception
    /\ UNCHANGED <<target, actual_calls, expected_type, raw, expected_calls,
                   results, overall, match_quality, match_reason,
                   alternatives, alt_idx>>
    /\ UNCHANGED fn_vars
    /\ UNCHANGED io_vars

(* Lines 79-85: build the explanation and return the Score.                *)
Return ==
    /\ pc = "explain"
    /\ LET e == _build_explanation(expected_calls, actual_calls, results,
                                   match_quality, match_reason)
       IN  IF e.raised # NoException
           THEN /\ exception' = e.raised
                /\ pc' = "raised"
                /\ score' = score
           ELSE /\ score' = MakeScore(overall,
                               JsonAnswer(_serialize_actual_calls(actual_calls)),
                               e.lines)
                /\ pc' = "done"
                /\ exception' = exception
    /\ UNCHANGED <<target, actual_calls, expected_type, raw, expected_calls,
                   results, overall, match_quality, match_reason,
                   alternatives, alt_idx>>
    /\ UNCHANGED fn_vars
    /\ UNCHANGED io_vars


-----------------------------------------------------------------------------
(* The inputs score() is run on.                                           *)

MaxCalls == 2
MaxAlts == 2

SeqsUpTo(S, n) == UNION {[1..k -> S] : k \in 0..n}

On == "HassTurnOn"
Off == "HassTurnOff"
Lamp == PyStr(<<"L", "a", "m", "p">>)
lamp == PyStr(<<"l", "a", "m", "p">>)
NameKey == <<"name">>

ExpectedPool == {Call(On, Arg(NameKey, Lamp)), Call(Off, EmptyDict)}

(* A tool call whose arguments the provider could not parse.              *)
Unparsed == ToolCall(On, OtherArguments(PyStr(<<"b", "a", "d">>)), "bad JSON")

ActualPool ==
    {Call(On, Arg(NameKey, lamp)), Call(Off, EmptyDict),
     Call(NullName, EmptyDict), _tc_to_dict(Unparsed)}

(* Decoded targets that are no list.                                       *)
NonListValues ==
    {JInt(5), JInt(0), JNull, JBool(TRUE), JBool(FALSE), JStr(0), JStr(2),
     JDict(0), JDict(1)}

Targets ==
    {JsonText(JList(calls)) : calls \in SeqsUpTo(ExpectedPool, MaxCalls)}
    \cup {JsonText(v) : v \in NonListValues}
    \cup {BadText}

AltPool ==
    {AltList(<<Call(Off, EmptyDict)>>),
     AltDict({"tool_calls", "quality", "reason"},
             <<Call(On, Arg(NameKey, Lamp))>>, "equivalent", "same device"),
     AltDict({"tool_calls"}, <<Call(On, EmptyDict)>>, "", "")}

Raws ==
    {RawList(alts) : alts \in SeqsUpTo(AltPool, MaxAlts)}
    \cup {RawStr(alts) : alts \in SeqsUpTo(AltPool, 1)}
    \cup {RawBadStr}

ResponseTypes == {"action_done", "text_response", "status"}

(* Every branch of _check_response_type, and a string that is none.       *)
AllResponseTypes ==
    {"action_done", "query_response", "text_response", "error",
     "clarification", "status"}

(* A sample that expects no call and got none is run under every response *)
(* type, the other samples under ResponseTypes.                            *)
TypesFor(tgt, actual) ==
    IF tgt = JsonText(JList(<<>>)) /\ actual = <<>>
    THEN AllResponseTypes
    ELSE ResponseTypes

(* Nothing is being loaded and no prompt was built.                        *)
IoIdle ==
    /\ file = <<>>
    /\ inventory_tier = ""
    /\ line_num = 0
    /\ samples = <<>>
    /\ dataset = "idle"
    /\ _inventory_cache = <<>>
    /\ disk = <<>>
    /\ p1 = "none"
    /\ p2 = "none"
    /\ tool_tier = ""
    /\ tools = <<>>

FnIdle ==
    /\ fn_expected = <<>>
    /\ fn_actual = <<>>
    /\ fn_type = ""
    /\ fn_out = "idle"

Init ==
    /\ pc = "start"
    /\ target \in Targets
    /\ actual_calls \in SeqsUpTo(ActualPool, MaxCalls)
    /\ expected_type \in TypesFor(target, actual_calls)
    /\ raw \in Raws
    /\ expected_calls = Unset
    /\ results = NoResults
    /\ overall = "?"
    /\ match_quality = "?"
    /\ match_reason = "?"
    /\ alternatives = <<>>
    /\ alt_idx = 0
    /\ score = NoScore
    /\ exception = NoException
    /\ FnIdle
    /\ IoIdle

Next ==
    \/ Parse
    \/ ScorePrimary
    \/ LoadAlternatives
    \/ TryAlternative
    \/ AlternativesExhausted
    \/ Return

Spec == Init /\ [][Next]_vars


-----------------------------------------------------------------------------
(* _score_dimensions applied to a well-formed expected list, an actual     *)
(* list and a response type.                                               *)

GetState == "HassGetState"
MadeUp == "MadeUpTool"
Bad == PyStr(<<"b", "a", "d">>)

DimExpectedPool ==
    {Call(On, EmptyDict), Call(On, Arg(NameKey, Lamp)), Call(Off, EmptyDict)}

DimActualPool ==
    {Call(On, EmptyDict), Call(On, Arg(NameKey, Lamp)), Call(Off, EmptyDict),
     Call(GetState, EmptyDict), Call(MadeUp, EmptyDict),
     Call(NullName, EmptyDict), Call(On, Arg(RawKey, Bad))}

ScoreIdle ==
    /\ pc = "idle"
    /\ target = BadText
    /\ actual_calls = <<>>
    /\ expected_type = ""
    /\ raw = RawList(<<>>)
    /\ expected_calls = Unset
    /\ results = NoResults
    /\ overall = "?"
    /\ match_quality = "?"
    /\ match_reason = "?"
    /\ alternatives = <<>>
    /\ alt_idx = 0
    /\ score = NoScore
    /\ exception = NoException

Pending == [fn |-> "", raised |-> NoException, ret |-> "", dims |-> NoResults]

InitDims ==
    /\ ScoreIdle
    /\ fn_expected \in SeqsUpTo(DimExpectedPool, MaxCalls)
    /\ fn_actual \in SeqsUpTo(DimActualPool, MaxCalls)
    /\ fn_type \in AllResponseTypes
    /\ fn_out = Pending
    /\ IoIdle

ApplyScoreDimensions ==
    /\ fn_out = Pending
    /\ LET r == _score_dimensions(JList(fn_expected), fn_actual, fn_type)
       IN  fn_out' = [fn |-> "_score_dimensions", raised |-> r.raised,
                      ret |-> "", dims |-> r.dims]
    /\ UNCHANGED <<fn_expected, fn_actual, fn_type>>
    /\ UNCHANGED score_vars
    /\ UNCHANGED io_vars

NextDims == ApplyScoreDimensions

SpecDims == InitDims /\ [][NextDims]_vars

-----------------------------------------------------------------------------
(* _tool_call_matches and _check_arguments applied to one expected call    *)
(* and one actual call whose arguments range over values of every type.    *)

MaxDiff == 3
MaxListLen == 2

A == PyStr(<<"A">>)
a == PyStr(<<"a">>)
B == PyStr(<<"B">>)
b == PyStr(<<"b">>)
Cc == PyStr(<<"C">>)
PaddedB == PyStr(<<" ", "b", "\r">>)
Str75 == PyStr(<<"7", "5">>)
Brightness == 75

StrValues == {A, a, B, b, Cc, PaddedB, Str75}

NumValues ==
    {PyInt(Brightness), PyInt(Brightness + 1)}
    \cup {PyFloat(Brightness * Den + d) : d \in (0 - MaxDiff)..MaxDiff}

ListValues ==
    {PyList(xs) :
        xs \in SeqsUpTo({A, B, b, PaddedB, PyInt(Brightness)}, MaxListLen)}
    \cup {PyList(<<Str75>>), PyList(<<A, Str75>>)}

Values == StrValues \cup NumValues \cup ListValues

AnyOfKey == <<"name", AnyOfSuffix>>
DomainKey == <<"domain">>
Light == PyList(<<PyStr(<<"l", "i", "g", "h", "t">>)>>)

Arg2(k1, v1, k2, v2) == [k \in {k1, k2} |-> IF k = k1 THEN v1 ELSE v2]

MatchExpectedArgs ==
    {EmptyDict}
    \cup {Arg(NameKey, v) : v \in Values \cup {PyNone}}
    \cup {Arg(AnyOfKey, v) : v \in Values \cup {PyNone}}
    \cup {Arg2(NameKey, Lamp, DomainKey, Light)}

MatchActualArgs ==
    {EmptyDict}
    \cup {Arg(NameKey, v) : v \in Values \cup {PyNone}}
    \cup {Arg(DomainKey, Light), Arg2(NameKey, lamp, DomainKey, Light),
          Arg2(NameKey, PyNone, DomainKey, Light)}

MatchExpected ==
    {Call(On, args) : args \in MatchExpectedArgs} \cup {CallNoArgs(On)}

MatchActual ==
    {Call(name, args) : name \in {On, Off}, args \in MatchActualArgs}
    \cup {CallNoArgs(On)}

InitMatch ==
    /\ ScoreIdle
    /\ fn_expected \in MatchExpected
    /\ fn_actual \in MatchActual
    /\ fn_type = ""
    /\ fn_out = Pending
    /\ IoIdle

ApplyToolCallMatches ==
    /\ fn_out = Pending
    /\ fn_out' = [fn |-> "_tool_call_matches", raised |-> NoException,
                  ret |-> IF _tool_call_matches(fn_expected, fn_actual)
                          THEN "True" ELSE "False",
                  dims |-> NoResults]
    /\ UNCHANGED <<fn_expected, fn_actual, fn_type>>
    /\ UNCHANGED score_vars
    /\ UNCHANGED io_vars

ApplyCheckArguments ==
    /\ fn_out = Pending
    /\ fn_out' = [fn |-> "_check_arguments", raised |-> NoException,
                  ret |-> _check_arguments(JList(<<fn_expected>>),
                                           <<fn_actual>>),
                  dims |-> NoResults]
    /\ UNCHANGED <<fn_expected, fn_actual, fn_type>>
    /\ UNCHANGED score_vars
    /\ UNCHANGED io_vars

NextMatch == ApplyToolCallMatches \/ ApplyCheckArguments

SpecMatch == InitMatch /\ [][NextMatch]_vars


-----------------------------------------------------------------------------
(* The dimension checks applied one at a time, as the unit tests call      *)
(* them: the call to make is chosen with its arguments, then made.         *)

CheckFunctions ==
    {"_check_response_type", "_check_format_validity", "_check_call_count",
     "_check_tool_names", "_check_no_hallucinated_tools"}

TakesExpected ==
    {"_check_response_type", "_check_call_count", "_check_tool_names"}

CheckExpectedPool == {Call(On, EmptyDict), Call(Off, EmptyDict)}

CheckActualPool ==
    {Call(On, EmptyDict), Call(Off, EmptyDict), Call(GetState, EmptyDict),
     Call(MadeUp, EmptyDict), Call(MadeUp, Arg(NameKey, Lamp)),
     Call(NullName, EmptyDict), Call("", EmptyDict),
     Call(On, Arg(RawKey, Bad))}

(* The known response types and strings that are none of them.            *)
CheckResponseTypes == AllResponseTypes \cup {"Action_Done", ""}

PendingCall(f) ==
    [fn |-> f, raised |-> NoException, ret |-> "pending", dims |-> NoResults]

InitChecks ==
    /\ ScoreIdle
    /\ fn_out \in {PendingCall(f) : f \in CheckFunctions}
    /\ fn_expected \in IF fn_out.fn \in TakesExpected
                       THEN SeqsUpTo(CheckExpectedPool, MaxCalls)
                       ELSE {<<>>}
    /\ fn_actual \in SeqsUpTo(CheckActualPool, MaxCalls)
    /\ fn_type \in IF fn_out.fn = "_check_response_type"
                   THEN CheckResponseTypes
                   ELSE {""}
    /\ IoIdle

(* The call f(...) returns ret (a verdict, or the exception it raised).    *)
Returns(f, ret) ==
    /\ fn_out = PendingCall(f)
    /\ fn_out' = [fn_out EXCEPT !.ret = ret]
    /\ UNCHANGED <<fn_expected, fn_actual, fn_type>>
    /\ UNCHANGED score_vars
    /\ UNCHANGED io_vars

ApplyCheckResponseType ==
    Returns("_check_response_type",
            _check_response_type(fn_type, JList(fn_expected), fn_actual))

ApplyCheckFormatValidity ==
    Returns("_check_format_validity", _check_format_validity(fn_actual))

ApplyCheckCallCount ==
    Returns("_check_call_count",
            _check_call_count(JList(fn_expected), fn_actual))

ApplyCheckToolNames ==
    Returns("_check_tool_names",
            _check_tool_names(JList(fn_expected), fn_actual))

ApplyCheckNoHallucinatedTools ==
    Returns("_check_no_hallucinated_tools",
            _check_no_hallucinated_tools(fn_actual))

NextChecks ==
    \/ ApplyCheckResponseType
    \/ ApplyCheckFormatValidity
    \/ ApplyCheckCallCount
    \/ ApplyCheckToolNames
    \/ ApplyCheckNoHallucinatedTools

SpecChecks == InitChecks /\ [][NextChecks]_vars

-----------------------------------------------------------------------------
(* Several invocations of score().  score() is a coroutine without an      *)
(* await, so an invocation runs from its first line to its return before   *)
(* another one starts: a sample is scored, then another sample, then the   *)
(* first one again.  What lasts from one invocation to the next are the    *)
(* samples (target, tool calls, metadata); the locals are new each time.   *)

Sample(tgt, actual, etype, alts) ==
    [target |-> tgt, actual_calls |-> actual, expected_type |-> etype,
     raw |-> alts]

(* The sample the variables hold.                                          *)
CurrentSample == Sample(target, actual_calls, expected_type, raw)

SampleTargets ==
    {JsonText(JList(calls)) : calls \in SeqsUpTo(ExpectedPool, 1)}
    \cup {JsonText(JInt(5)), BadText}

SampleRaws ==
    {RawList(alts) : alts \in SeqsUpTo(AltPool, MaxAlts)}
    \cup {RawStr(<<AltList(<<Call(Off, EmptyDict)>>)>>), RawBadStr}

SampleActuals == SeqsUpTo(ActualPool, 1)

SampleTypes == {"action_done", "text_response"}

(* The samples scored in between.                                          *)
OtherSamples ==
    {Sample(JsonText(JList(<<Call(Off, EmptyDict)>>)),
            <<Call(Off, EmptyDict)>>, "action_done", RawList(<<>>)),
     Sample(JsonText(JList(<<Call(On, Arg(NameKey, Lamp))>>)),
            <<Call(Off, EmptyDict)>>, "action_done",
            RawList(<<AltList(<<Call(On, EmptyDict)>>),
                      AltList(<<Call(Off, EmptyDict)>>)>>)),
     Sample(BadText, <<>>, "text_response", RawBadStr)}

(* The locals of an invocation that has not run yet.                       *)
FreshLocals ==
    [pc |-> "start", expected_calls |-> Unset, results |-> NoResults,
     overall |-> "?", match_quality |-> "?", match_reason |-> "?",
     alternatives |-> <<>>, alt_idx |-> 0, score |-> NoScore,
     exception |-> NoException]

(* What an invocation gave: the Score returned or the exception raised.    *)
Outcome == [score |-> score, exception |-> exception]
NoOutcome == [score |-> NoScore, exception |-> "not run"]

InitSamples ==
    /\ target \in SampleTargets
    /\ actual_calls \in SampleActuals
    /\ expected_type \in SampleTypes
    /\ raw \in SampleRaws
    /\ pc = "start"
    /\ expected_calls = Unset
    /\ results = NoResults
    /\ overall = "?"
    /\ match_quality = "?"
    /\ match_reason = "?"
    /\ alternatives = <<>>
    /\ alt_idx = 0
    /\ score = NoScore
    /\ exception = NoException
    /\ fn_type = "first"
    /\ fn_expected = CurrentSample
    /\ fn_actual \in OtherSamples
    /\ fn_out = NoOutcome
    /\ IoIdle

(* A new invocation of score() on the sample smp.                          *)
Invoke(smp) ==
    /\ target' = smp.target
    /\ actual_calls' = smp.actual_calls
    /\ expected_type' = smp.expected_type
    /\ raw' = smp.raw
    /\ pc' = FreshLocals.pc
    /\ expected_calls' = FreshLocals.expected_calls
    /\ results' = FreshLocals.results
    /\ overall' = FreshLocals.overall
    /\ match_quality' = FreshLocals.match_quality
    /\ match_reason' = FreshLocals.match_reason
    /\ alternatives' = FreshLocals.alternatives
    /\ alt_idx' = FreshLocals.alt_idx
    /\ score' = FreshLocals.score
    /\ exception' = FreshLocals.exception

(* The first invocation is over; the other sample is scored next.  The     *)
(* first sample stays as the invocation left it.                           *)
ScoreOtherSample ==
    /\ fn_type = "first"
    /\ pc \in {"done", "raised"}
    /\ fn_out' = Outcome
    /\ fn_expected' = CurrentSample
    /\ fn_type' = "other"
    /\ Invoke(fn_actual)
    /\ UNCHANGED fn_actual
    /\ UNCHANGED io_vars

(* The other sample is scored; the first sample is scored again.           *)
ScoreFirstAgain ==
    /\ fn_type = "other"
    /\ pc \in {"done", "raised"}
    /\ fn_actual' = CurrentSample
    /\ fn_type' = "second"
    /\ Invoke(fn_expected)
    /\ UNCHANGED <<fn_expected, fn_out>>
    /\ UNCHANGED io_vars

NextSamples ==
    \/ Parse
    \/ ScorePrimary
    \/ LoadAlternatives
    \/ TryAlternative
    \/ AlternativesExhausted
    \/ Return
    \/ ScoreOtherSample
    \/ ScoreFirstAgain

SpecSamples == InitSamples /\ [][NextSamples]_vars

-----------------------------------------------------------------------------
(* load_ha_test_cases (dataset.py:18-84).                                  *)

(* REQUIRED_FIELDS (dataset.py:8-15)                                       *)
REQUIRED_FIELDS ==
    {"id", "utterance", "expected_tool_calls", "expected_response_type",
     "inventory_tier", "inventory_file"}

(* A line of the file is text that is no JSON (blank, or anything else),   *)
(* JSON for something that is no object, or JSON for an object: the case.  *)
NotJson(chars) == [kind |-> "text", chars |-> chars, keys |-> {},
                   id |-> "", inventory_tier |-> ""]
JsonValue == [kind |-> "value", chars |-> <<>>, keys |-> {},
              id |-> "", inventory_tier |-> ""]
JsonObject(keys, id, tier) ==
    [kind |-> "object", chars |-> <<>>, keys |-> keys,
     id |-> id, inventory_tier |-> tier]

(* Sample(id=..., metadata={...}) of lines 58-78, as far as the case's id, *)
(* tier and alternatives go.                                               *)
MakeSample(case) ==
    [id |-> case.id, inventory_tier |-> case.inventory_tier,
     has_alternatives |-> "alternative_expected_tool_calls" \in case.keys]

(* What the call gave or where it is.                                      *)
Loading(status) ==
    [status |-> status, message |-> "", line |-> 0, samples |-> <<>>]
Raised(exc, message, line) ==
    [status |-> exc, message |-> message, line |-> line, samples |-> <<>>]
MemoryDataset(smps) ==
    [status |-> "returned", message |-> "", line |-> 0, samples |-> smps]

(* Lines 35-40: the file is looked up and opened.                          *)
OpenFile ==
    /\ dataset = Loading("start")
    /\ IF ~file.exists
       THEN dataset' = Raised("FileNotFoundError", "Test case file not found", 0)
       ELSE dataset' = Loading("reading")
    /\ samples' = <<>>
    /\ line_num' = 0
    /\ UNCHANGED <<file, inventory_tier>>
    /\ UNCHANGED <<score_vars, fn_vars, prompt_vars, task_vars>>

(* Lines 42-78: the loop body on the line numbered num, with the samples   *)
(* smps collected so far: where the call is after it and the samples.      *)
LineStep(line, num, smps, tier) ==
    IF line.kind = "text" /\ Strip(line.chars) = <<>>
    THEN [dataset |-> Loading("reading"), samples |-> smps]
    ELSE IF line.kind = "text"
    THEN [dataset |-> Raised("ValueError", "Invalid JSON", num),
          samples |-> smps]
    ELSE IF line.kind = "value"
    THEN [dataset |-> Raised("AttributeError", "keys", 0), samples |-> smps]
    ELSE IF REQUIRED_FIELDS \ line.keys # {}
    THEN [dataset |-> Raised("ValueError", "Missing fields", num),
          samples |-> smps]
    ELSE IF tier # "" /\ line.inventory_tier # tier
    THEN [dataset |-> Loading("reading"), samples |-> smps]
    ELSE [dataset |-> Loading("reading"),
          samples |-> Append(smps, MakeSample(line))]

(* Lines 41-78: the loop body, for the next line of the file.              *)
ReadLine ==
    /\ dataset = Loading("reading")
    /\ line_num < Len(file.lines)
    /\ line_num' = line_num + 1
    /\ LET r == LineStep(file.lines[line_num + 1], line_num + 1, samples,
                         inventory_tier)
       IN  /\ dataset' = r.dataset
           /\ samples' = r.samples
    /\ UNCHANGED <<file, inventory_tier>>
    /\ UNCHANGED <<score_vars, fn_vars, prompt_vars, task_vars>>

(* Lines 80-84: after the last line.                                       *)
FinishLoad ==
    /\ dataset = Loading("reading")
    /\ line_num = Len(file.lines)
    /\ IF samples = <<>>
       THEN dataset' = Raised("ValueError", "No test cases loaded", 0)
       ELSE dataset' = MemoryDataset(samples)
    /\ UNCHANGED <<file, inventory_tier, line_num, samples>>
    /\ UNCHANGED <<score_vars, fn_vars, prompt_vars, task_vars>>

(* The loop from the line after num to the end of the call.                *)
RECURSIVE ReadLines(_, _, _, _)
ReadLines(f, num, smps, tier) ==
    IF num = Len(f.lines)
    THEN [dataset |-> IF smps = <<>>
                      THEN Raised("ValueError", "No test cases loaded", 0)
                      ELSE MemoryDataset(smps),
          line_num |-> num, samples |-> smps]
    ELSE LET r == LineStep(f.lines[num + 1], num + 1, smps, tier)
         IN  IF r.dataset # Loading("reading")
             THEN [dataset |-> r.dataset, line_num |-> num + 1,
                   samples |-> r.samples]
             ELSE ReadLines(f, num + 1, r.samples, tier)

(* One whole call of load_ha_test_cases: what it gave, and line_num and    *)
(* samples as it left them.                                                *)
load_ha_test_cases(f, tier) ==
    IF ~f.exists
    THEN [dataset |-> Raised("FileNotFoundError", "Test case file not found", 0),
          line_num |-> 0, samples |-> <<>>]
    ELSE ReadLines(f, 0, <<>>, tier)

MaxLines == 3

Complete == REQUIRED_FIELDS
WithAlternatives == REQUIRED_FIELDS \cup {"alternative_expected_tool_calls"}

LinePool ==
    {NotJson(<<>>), NotJson(<<" ", "\f", "\t">>),
     NotJson(<<"n", "o", "t", " ", "j", "s", "o", "n">>),
     JsonValue,
     JsonObject({"id", "utterance"}, "x", ""),
     JsonObject(Complete \ {"id"}, "", "large"),
     JsonObject(Complete, "a", "small"),
     JsonObject(WithAlternatives, "b", "large"),
     JsonObject(Complete, "c", "small")}

Tiers == {"", "small", "large", "huge"}

(* No task is being built.                                                 *)
TaskIdle == tool_tier = "" /\ tools = <<>>

PromptIdle ==
    /\ _inventory_cache = <<>>
    /\ disk = <<>>
    /\ p1 = "none"
    /\ p2 = "none"

InitLoad ==
    /\ ScoreIdle
    /\ FnIdle
    /\ PromptIdle
    /\ TaskIdle
    /\ file \in {[exists |-> FALSE, lines |-> <<>>]}
                \cup {[exists |-> TRUE, lines |-> ls] :
                         ls \in SeqsUpTo(LinePool, MaxLines)}
    /\ inventory_tier \in Tiers
    /\ line_num = 0
    /\ samples = <<>>
    /\ dataset = Loading("start")

NextLoad == OpenFile \/ ReadLine \/ FinishLoad

SpecLoad == InitLoad /\ [][NextLoad]_vars

-----------------------------------------------------------------------------
(* prompt.py: build_system_prompt and the inventory cache.                 *)

(* A path as written by the caller: absolute or relative, and its parts.   *)
AbsPath(parts) == [absolute |-> TRUE, parts |-> parts]
RelPath(parts) == [absolute |-> FALSE, parts |-> parts]

(* The working directory of the process.                                   *)
Cwd == <<"repo">>

(* Path(base_dir) / inventory_file: an absolute right operand replaces the *)
(* left one.                                                               *)
JoinPath(base_dir, inventory_file) ==
    IF inventory_file.absolute
    THEN inventory_file
    ELSE [absolute |-> base_dir.absolute,
          parts |-> base_dir.parts \o inventory_file.parts]

(* Path.resolve() without symbolic links: "." is dropped and ".." removes  *)
(* the part before it.                                                     *)
RECURSIVE Collapse(_, _)
Collapse(done, parts) ==
    IF parts = <<>> THEN done
    ELSE LET part == Head(parts)
             rest == Tail(parts)
         IN  IF part = "." THEN Collapse(done, rest)
             ELSE IF part = ".."
                  THEN Collapse(IF done = <<>> THEN <<>>
                                ELSE SubSeq(done, 1, Len(done) - 1), rest)
                  ELSE Collapse(Append(done, part), rest)

Resolve(path) ==
    Collapse(<<>>, IF path.absolute THEN path.parts ELSE Cwd \o path.parts)

(* full_path: the key of the cache.                                        *)
FullPath(inventory_file, base_dir) == Resolve(JoinPath(base_dir, inventory_file))

(* What a file holds: nothing (no such file), text that is not YAML, an    *)
(* empty document (None), or a mapping with some of the keys areas and     *)
(* entities.                                                               *)
NoFile == [kind |-> "missing"]
NotYaml == [kind |-> "invalid"]
EmptyYaml == [kind |-> "null"]
Inventory(keys, areas, entities) ==
    [kind |-> "mapping", keys |-> keys, areas |-> areas, entities |-> entities]

Area(id, name) == [id |-> id, name |-> name]
Entity(keys, entity_id, name, state, area, attributes) ==
    [keys |-> keys, entity_id |-> entity_id, name |-> name, state |-> state,
     area |-> area, attributes |-> attributes]

(* The file at full_path, as open() finds it.                              *)
FileAt(dsk, full_path) ==
    IF full_path \in DOMAIN dsk THEN dsk[full_path] ELSE NoFile

(* The first key an entity lacks among those that are subscripted.         *)
MissingEntityKey(entities) ==
    IF \E i \in 1..Len(entities) : ~({"entity_id", "name"} \subseteq entities[i].keys)
    THEN LET i == CHOOSE k \in 1..Len(entities) :
                      /\ ~({"entity_id", "name"} \subseteq entities[k].keys)
                      /\ \A j \in 1..(k - 1) :
                             {"entity_id", "name"} \subseteq entities[j].keys
         IN  IF "entity_id" \notin entities[i].keys THEN "entity_id" ELSE "name"
    ELSE ""

(* area_names: {area["id"]: area["name"]}, a later area replacing an       *)
(* earlier one of the same id.                                             *)
AreaNames(areas) ==
    [id \in {areas[i].id : i \in 1..Len(areas)} |->
        LET last == CHOOSE i \in 1..Len(areas) :
                        /\ areas[i].id = id
                        /\ \A j \in (i + 1)..Len(areas) : areas[j].id # id
        IN  areas[last].name]

(* One attribute line: the key alone when the value is None.               *)
AttributeLine(attr) ==
    IF attr.is_none
    THEN <<"    ", attr.key, ":">>
    ELSE <<"    ", attr.key, ": ", attr.value>>

(* The lines of one entity; each line is the pieces of its f-string.       *)
EntityLines(entity, area_names) ==
    LET state == IF "state" \in entity.keys THEN entity.state ELSE "unknown"
        area_id == IF "area" \in entity.keys THEN entity.area ELSE ""
        attrs == IF "attributes" \in entity.keys THEN entity.attributes ELSE <<>>
    IN  <<  <<entity.entity_id, ":">>,
            <<"  names: ", entity.name>>,
            <<"  state: '", state, "'">>  >>
        \o (IF area_id # "" /\ area_id \in DOMAIN area_names
            THEN << <<"  areas: ", area_names[area_id]>> >>
            ELSE <<>>)
        \o (IF attrs # <<>>
            THEN << <<"  attributes:">> >>
                 \o [i \in 1..Len(attrs) |-> AttributeLine(attrs[i])]
            ELSE <<>>)

RECURSIVE FormatEntities(_, _)
FormatEntities(entities, area_names) ==
    IF entities = <<>> THEN <<>>
    ELSE EntityLines(Head(entities), area_names)
             \o FormatEntities(Tail(entities), area_names)

(* A lookup that finds nothing.                                            *)
CacheNeverHit(cache, full_path) == FALSE

(* The cache has an entry for full_path.                                   *)
CacheHit(cache, full_path) == full_path \in DOMAIN cache

(* The cache with formatted stored at full_path.                           *)
Store(cache, full_path, formatted) ==
    [k \in DOMAIN cache \cup {full_path} |->
        IF k = full_path THEN formatted ELSE cache[k]]

(* What _load_and_format_inventory does: the exception it raises or the    *)
(* text it returns, the cache it leaves, and whether it opened the file.   *)
Loaded(raised, formatted, cache, opened) ==
    [raised |-> raised, formatted |-> formatted, cache |-> cache,
     opened |-> opened]

_load_and_format_inventory(cache, dsk, inventory_file, base_dir) ==
    LET full_path == FullPath(inventory_file, base_dir)
        inventory == FileAt(dsk, full_path)
    IN  IF CacheHit(cache, full_path)
        THEN Loaded(NoException, cache[full_path], cache, FALSE)
        ELSE IF inventory.kind = "missing"
        THEN Loaded("FileNotFoundError", <<>>, cache, TRUE)
        ELSE IF inventory.kind = "invalid"
        THEN Loaded("YAMLError", <<>>, cache, TRUE)
        ELSE IF inventory.kind = "null"
        THEN Loaded("AttributeError", <<>>, cache, TRUE)
        ELSE LET areas == IF "areas" \in inventory.keys
                          THEN inventory.areas ELSE <<>>
                 entities == IF "entities" \in inventory.keys
                             THEN inventory.entities ELSE <<>>
             IN  IF MissingEntityKey(entities) # ""
                 THEN Loaded("KeyError", <<>>, cache, TRUE)
                 ELSE LET formatted == FormatEntities(entities, AreaNames(areas))
                      IN  Loaded(NoException, formatted,
                                 Store(cache, full_path, formatted), TRUE)

DEFAULT_INSTRUCTIONS == "DEFAULT_INSTRUCTIONS"
FIXED_TIME == "12:00:00"
FIXED_DATE == "2026-03-01"

(* The parts build_system_prompt joins with newlines; entity_context is    *)
(* the fourth part.                                                        *)
PromptText(entity_context, include_timestamp) ==
    [head |-> <<DEFAULT_INSTRUCTIONS, "",
                "An overview of the areas and the devices in this smart home:">>,
     entity_context |-> entity_context,
     tail |-> IF include_timestamp
              THEN <<"", <<"The current time is ", FIXED_TIME,
                            ". Today's date is ", FIXED_DATE, ".">> >>
              ELSE <<>>]

NoPromptText == [head |-> <<>>, entity_context |-> <<>>, tail |-> <<>>]

(* One call of build_system_prompt as the caller sees it: its arguments,   *)
(* the exception or the prompt, and whether the file was opened.           *)
Build(inventory_file, base_dir, include_timestamp, raised, prompt, opened) ==
    [inventory_file |-> inventory_file, base_dir |-> base_dir,
     include_timestamp |-> include_timestamp, raised |-> raised,
     prompt |-> prompt, opened |-> opened]

NoBuild == Build(RelPath(<<>>), RelPath(<<>>), FALSE, "no call", NoPromptText, FALSE)

build_system_prompt(inventory_file, base_dir, include_timestamp) ==
    LET loaded == _load_and_format_inventory(_inventory_cache, disk,
                                             inventory_file, base_dir)
    IN  /\ _inventory_cache' = loaded.cache
        /\ p2' = Build(inventory_file, base_dir, include_timestamp,
                       loaded.raised,
                       IF loaded.raised = NoException
                       THEN PromptText(loaded.formatted, include_timestamp)
                       ELSE NoPromptText,
                       loaded.opened)
        /\ UNCHANGED <<disk, p1>>
        /\ UNCHANGED <<score_vars, fn_vars, load_vars, task_vars>>

(* clear_inventory_cache(); the caller keeps nothing from before it.       *)
clear_inventory_cache ==
    /\ _inventory_cache' = <<>>
    /\ p1' = NoBuild
    /\ p2' = NoBuild
    /\ UNCHANGED disk
    /\ UNCHANGED <<score_vars, fn_vars, load_vars, task_vars>>

(* The caller keeps the prompt it was given, as p1, and goes on.           *)
KeepPrompt ==
    /\ p2 # NoBuild
    /\ p2.raised = NoException
    /\ p1' = p2
    /\ p2' = NoBuild
    /\ UNCHANGED <<_inventory_cache, disk>>
    /\ UNCHANGED <<score_vars, fn_vars, load_vars, task_vars>>

(* Something outside the program rewrites, creates or removes a file.      *)
WriteFile(full_path, content) ==
    /\ disk[full_path] # content
    /\ disk' = [disk EXCEPT ![full_path] = content]
    /\ UNCHANGED <<_inventory_cache, p1, p2>>
    /\ UNCHANGED <<score_vars, fn_vars, load_vars, task_vars>>

(* The inventories of the specification.                                   *)
Attr(key, value) == [key |-> key, value |-> value, is_none |-> FALSE]
NoneAttr(key) == [key |-> key, value |-> "None", is_none |-> TRUE]

KitchenLight(state) ==
    Entity({"entity_id", "name", "state", "area", "attributes"},
           "light.kitchen", "Kitchen Light", state, "kitchen",
           <<Attr("brightness", "75"), NoneAttr("color")>>)

GarageSensor ==
    Entity({"entity_id", "name", "area"}, "sensor.garage", "Garage Sensor",
           "", "garage", <<>>)

Nameless ==
    Entity({"entity_id", "state"}, "switch.fan", "", "on", "", <<>>)

Kitchen == Area("kitchen", "Kitchen")

LightOn ==
    Inventory({"areas", "entities"}, <<Kitchen>>,
              <<KitchenLight("on"), GarageSensor>>)
LightOff ==
    Inventory({"areas", "entities"}, <<Kitchen>>,
              <<KitchenLight("off"), GarageSensor>>)
Broken == Inventory({"entities"}, <<>>, <<KitchenLight("on"), Nameless>>)

InvPath == <<"repo", "inv.yaml">>
SubPath == <<"repo", "sub", "inv.yaml">>

Contents(full_path) ==
    IF full_path = InvPath
    THEN {NoFile, NotYaml, EmptyYaml, LightOn, LightOff, Broken}
    ELSE {NoFile, LightOn}

(* The ways the caller spells a file: inventory_file and base_dir.         *)
Spelling(inventory_file, base_dir) ==
    [inventory_file |-> inventory_file, base_dir |-> base_dir]

Spellings ==
    {Spelling(RelPath(<<"inv.yaml">>), RelPath(<<".">>)),
     Spelling(RelPath(<<".", "inv.yaml">>), RelPath(<<".">>)),
     Spelling(RelPath(<<"..", "inv.yaml">>), RelPath(<<"sub">>)),
     Spelling(AbsPath(<<"repo", "inv.yaml">>), RelPath(<<".">>)),
     Spelling(RelPath(<<"inv.yaml">>), RelPath(<<"sub">>))}

(* No file is being loaded.                                                *)
LoadIdle ==
    /\ file = <<>>
    /\ inventory_tier = ""
    /\ line_num = 0
    /\ samples = <<>>
    /\ dataset = "idle"

InitPrompt ==
    /\ ScoreIdle
    /\ FnIdle
    /\ LoadIdle
    /\ TaskIdle
    /\ _inventory_cache = <<>>
    /\ disk \in [{InvPath, SubPath} -> Contents(InvPath)]
    /\ \A full_path \in DOMAIN disk : disk[full_path] \in Contents(full_path)
    /\ p1 = NoBuild
    /\ p2 = NoBuild

BuildStep ==
    \E s \in Spellings, include_timestamp \in BOOLEAN :
        build_system_prompt(s.inventory_file, s.base_dir, include_timestamp)

NextPrompt ==
    \/ BuildStep
    \/ clear_inventory_cache
    \/ KeepPrompt
    \/ \E full_path \in DOMAIN disk :
           \E content \in Contents(full_path) : WriteFile(full_path, content)

SpecPrompt == InitPrompt /\ [][NextPrompt]_vars

-----------------------------------------------------------------------------
(* task.py: the task exposes the tools of one tier, the model answers with *)
(* tool calls, and score() scores them.                                    *)

(* Lines 38-45: Task(...).  Its arguments are evaluated in order: the      *)
(* whole of load_ha_test_cases on the test data, without a tier filter,    *)
(* then get_ha_intent_tools(tool_tier), whose tools are given to           *)
(* use_tools.  The first that raises ends the call.                        *)
BuildTask ==
    /\ pc = "task"
    /\ LET l == load_ha_test_cases(file, "")
           r == get_ha_intent_tools(tool_tier)
       IN  /\ dataset' = l.dataset
           /\ line_num' = l.line_num
           /\ samples' = l.samples
           /\ IF l.dataset.status # "returned"
              THEN /\ exception' = l.dataset.status
                   /\ pc' = "raised"
                   /\ tools' = tools
              ELSE IF r.raised # NoException
              THEN /\ exception' = r.raised
                   /\ pc' = "raised"
                   /\ tools' = tools
              ELSE /\ tools' = r.tools
                   /\ pc' = "solve"
                   /\ exception' = exception
    /\ UNCHANGED <<target, actual_calls, expected_type, raw, expected_calls,
                   results, overall, match_quality, match_reason,
                   alternatives, alt_idx, score>>
    /\ UNCHANGED <<tool_tier, file, inventory_tier>>
    /\ UNCHANGED <<fn_vars, prompt_vars>>

(* str(_resolve(base_dir, "")) of task.py:42 for the default base_dir: the *)
(* repository root, an absolute path.                                      *)
TaskBaseDir == AbsPath(Cwd)

(* The inventory_file of the samples' metadata.                            *)
TaskInventories == {RelPath(<<"inv.yaml">>)}

(* solver.py:28-31: solve() up to its await.  The system prompt is built,  *)
(* which reads and fills the inventory cache, and inserted as the first    *)
(* message (kept in p2); an exception of build_system_prompt ends the      *)
(* sample before generate is called.                                       *)
SolveBegin(inventory_file) ==
    /\ pc = "solve"
    /\ LET loaded == _load_and_format_inventory(_inventory_cache, disk,
                                                inventory_file, TaskBaseDir)
       IN  /\ _inventory_cache' = loaded.cache
           /\ p2' = Build(inventory_file, TaskBaseDir, TRUE, loaded.raised,
                          IF loaded.raised = NoException
                          THEN PromptText(loaded.formatted, TRUE)
                          ELSE NoPromptText,
                          loaded.opened)
           /\ IF loaded.raised # NoException
              THEN /\ exception' = loaded.raised
                   /\ pc' = "raised"
              ELSE /\ exception' = exception
                   /\ pc' = "await"
    /\ UNCHANGED <<target, actual_calls, expected_type, raw, expected_calls,
                   results, overall, match_quality, match_reason,
                   alternatives, alt_idx, score>>
    /\ UNCHANGED <<disk, p1>>
    /\ UNCHANGED <<fn_vars, load_vars, task_vars>>

(* While solve() waits in its await, the solve() of another sample runs    *)
(* up to its own await on the same event loop: it fills the cache.         *)
SolveOther(inventory_file) ==
    /\ pc = "await"
    /\ _inventory_cache' =
           _load_and_format_inventory(_inventory_cache, disk, inventory_file,
                                      TaskBaseDir).cache
    /\ UNCHANGED <<disk, p1, p2>>
    /\ UNCHANGED <<score_vars, fn_vars, load_vars, task_vars>>

(* While solve() waits in its await, another callback calls                *)
(* clear_inventory_cache(); the message already inserted stays.            *)
ClearWhileAwaiting ==
    /\ pc = "await"
    /\ _inventory_cache' = <<>>
    /\ UNCHANGED <<disk, p1, p2>>
    /\ UNCHANGED <<score_vars, fn_vars, load_vars, task_vars>>

MaxGenerated == 1

(* A call whose arguments are a dict with the keys name, domain inserted   *)
(* in that order, and a parse error.                                       *)
UnparsedDict ==
    ToolCall(On, DictArguments(<<NameKey, DomainKey>>,
                               Arg2(NameKey, Lamp, DomainKey, Light)),
             "bad JSON")

(* The calls the model may answer with: an exposed tool, a tool of the     *)
(* full tier whether exposed or not, a name that no tier has, and calls    *)
(* whose arguments could not be parsed.  generate(tool_calls="none") hands *)
(* them on as they are.                                                    *)
Callable == {Call(tools[k], EmptyDict) : k \in 1..Len(tools)}
                \cup {Call("HassMediaPause", EmptyDict),
                      Call("MadeUpTool", EmptyDict), _tc_to_dict(Unparsed),
                      _tc_to_dict(UnparsedDict)}

(* solver.py:34 and tool_call.py:47: the await of generate() ends, then    *)
(* the tool calls of the answer as _extract_tool_calls gives them.         *)
Generate ==
    /\ pc = "await"
    /\ actual_calls' \in SeqsUpTo(Callable, MaxGenerated)
    /\ pc' = "start"
    /\ UNCHANGED <<target, expected_type, raw, expected_calls, results,
                   overall, match_quality, match_reason, alternatives,
                   alt_idx, score, exception>>
    /\ UNCHANGED <<fn_vars, io_vars>>

MediaPause == "HassMediaPause"

TaskTargets ==
    {JsonText(JList(<<>>)), JsonText(JList(<<Call("HassTurnOn", EmptyDict)>>)),
     JsonText(JList(<<Call(MediaPause, EmptyDict)>>))}

TaskRaws ==
    {RawList(<<>>),
     RawList(<<AltList(<<Call(MediaPause, EmptyDict)>>),
               AltDict({"tool_calls"}, <<Call("HassTurnOn", EmptyDict)>>,
                       "", "")>>)}

TaskResponseTypes ==
    {"action_done", "query_response", "text_response", "error",
     "clarification"}

ToolTiers == {"mvp", "full", "nonexistent"}

(* The test data: no file, a file that is no JSON, and a file of one case  *)
(* followed by a line of whitespace.                                       *)
TaskFiles ==
    {[exists |-> FALSE, lines |-> <<>>],
     [exists |-> TRUE,
      lines |-> <<NotJson(<<"n", "o", "t", " ", "j", "s", "o", "n">>)>>],
     [exists |-> TRUE,
      lines |-> <<JsonObject(Complete, "a", "small"),
                  NotJson(<<" ", "\f", "\t">>)>>]}

InitTask ==
    /\ pc = "task"
    /\ tool_tier \in ToolTiers
    /\ tools = <<>>
    /\ target \in TaskTargets
    /\ actual_calls = <<>>
    /\ expected_type \in TaskResponseTypes
    /\ raw \in TaskRaws
    /\ expected_calls = Unset
    /\ results = NoResults
    /\ overall = "?"
    /\ match_quality = "?"
    /\ match_reason = "?"
    /\ alternatives = <<>>
    /\ alt_idx = 0
    /\ score = NoScore
    /\ exception = NoException
    /\ FnIdle
    /\ file \in TaskFiles
    /\ inventory_tier = ""
    /\ line_num = 0
    /\ samples = <<>>
    /\ dataset = Loading("start")
    /\ _inventory_cache = <<>>
    /\ disk \in [{InvPath} -> {NoFile, LightOn}]
    /\ p1 = NoBuild
    /\ p2 = NoBuild

NextTask ==
    \/ BuildTask
    \/ \E inventory_file \in TaskInventories : SolveBegin(inventory_file)
    \/ \E inventory_file \in TaskInventories : SolveOther(inventory_file)
    \/ ClearWhileAwaiting
    \/ Generate
    \/ Parse
    \/ ScorePrimary
    \/ LoadAlternatives
    \/ TryAlternative
    \/ AlternativesExhausted
    \/ Return

SpecTask == InitTask /\ [][NextTask]_vars

-----------------------------------------------------------------------------
(* Properties of score().                                                  *)

(* score() returned a Score built from dimension results (not the          *)
(* terminal parse-error score).                                            *)
Returned == pc = "done" /\ target.valid

(* The verdicts printed in the Checks section of the explanation.          *)
PrintedChecks(sc) == SelectSeq(sc.explanation, LAMBDA l : l.kind = "check")

(* What the dimension checks give for a list of expected calls.            *)
DimsFor(calls) == _score_dimensions(JList(calls), actual_calls, expected_type)

(* An expected set passes: no check raises and none is Incorrect.          *)
IsPass(r) ==
    /\ r.raised = NoException
    /\ \A d \in DimensionSet : r.dims[d] \in {C, N}

Passes(calls) == IsPass(DimsFor(calls))

(* r is a result with some verdict Incorrect.                              *)
IsFailure(r) == r.raised = NoException /\ ~IsPass(r)

PrimaryFailed ==
    /\ target.valid
    /\ target.value.kind = "list"
    /\ IsFailure(DimsFor(target.value.items))

(* The calls, quality and reason an alternative stands for (spec 3).       *)
CallsOf(alt) ==
    IF alt.is_dict /\ "tool_calls" \notin alt.keys THEN <<>> ELSE alt.tool_calls
QualityOf(alt) ==
    IF alt.is_dict /\ "quality" \in alt.keys THEN alt.quality ELSE "acceptable"
ReasonOf(alt) ==
    IF alt.is_dict /\ "reason" \in alt.keys THEN alt.reason ELSE ""

PassingAlts == {k \in 1..Len(raw.alts) : Passes(CallsOf(raw.alts[k]))}

(* C1: whenever score() returns a Score with dimension results, its value  *)
(* is Correct if and only if every printed verdict other than N is C,      *)
(* whether the primary's results were kept or an alternative's adopted.    *)
C1_OverallIffApplicableCorrect ==
    Returned =>
        LET checks == PrintedChecks(score)
        IN  /\ Len(checks) = Len(Dimensions)
            /\ score.value \in {C, I}
            /\ (score.value = C) <=>
                   (\A i \in 1..Len(checks) :
                        checks[i].text # N => checks[i].text = C)

(* C1 witness: an alternative's results were adopted, some dimensions do   *)
(* not apply, and the Score is Correct.                                    *)
C1_Witness ==
    /\ Returned
    /\ alt_idx >= 1
    /\ match_quality # "optimal"
    /\ score.value = C
    /\ \E d \in DimensionSet : results[d] = N

(* The least element of a set of numbers.                                  *)
Least(S) == CHOOSE i \in S : \A j \in S : i <= j

(* The final results, label and Score are those of the alternative alt.    *)
AdoptedIs(alt) ==
    /\ results = DimsFor(CallsOf(alt)).dims
    /\ overall = C
    /\ match_quality = QualityOf(alt)
    /\ match_reason = ReasonOf(alt)
    /\ ~alt.is_dict => (match_quality = "acceptable" /\ match_reason = "")
    /\ pc = "done" => score.value = C

(* C2: once the primary set failed and the loop over the alternatives is   *)
(* over, if some alternative passes then the one of smallest index is      *)
(* adopted: results, quality and reason are exactly its own (a bare list   *)
(* gives "acceptable" and no reason) and overall is Correct.               *)
C2_FirstMatchWins ==
    (pc \in {"explain", "done"} /\ PrimaryFailed /\ PassingAlts # {}) =>
        AdoptedIs(raw.alts[Least(PassingAlts)])

(* C2 witness: two alternatives pass, with different labels, and the       *)
(* first was adopted although it is the bare-quality one.                  *)
C2_Witness ==
    /\ pc = "done"
    /\ PrimaryFailed
    /\ Cardinality(PassingAlts) = 2
    /\ QualityOf(raw.alts[1]) # QualityOf(raw.alts[2])
    /\ match_quality = QualityOf(raw.alts[1])
    /\ score.value = C

(* C3: when the primary set failed and no alternative passes, the final    *)
(* results are the primary's, overall is Incorrect, the label is "optimal" *)
(* with no reason, and the explanation opens with MATCH_QUALITY: optimal   *)
(* and has no MATCH_REASON line.                                           *)
C3_NoAlternativeKeepsPrimary ==
    (pc \in {"explain", "done"} /\ PrimaryFailed /\ PassingAlts = {}) =>
        /\ results = DimsFor(target.value.items).dims
        /\ overall = I
        /\ match_quality = "optimal"
        /\ match_reason = ""
        /\ pc = "done" =>
             /\ score.value = I
             /\ score.explanation[1] = TextLine("MATCH_QUALITY", "optimal")
             /\ \A i \in 1..Len(score.explanation) :
                    score.explanation[i].kind # "MATCH_REASON"

(* C3 witness: two alternatives were scored, both failed, and the Score    *)
(* was returned.                                                           *)
C3_Witness ==
    /\ pc = "done"
    /\ PrimaryFailed
    /\ Len(raw.alts) = 2
    /\ PassingAlts = {}
    /\ alt_idx = 3


(* The target text is not JSON, or is JSON for something else than an      *)
(* array.                                                                  *)
NonArrayTarget == ~target.valid \/ target.value.kind # "list"

(* C4: for every target that is not valid JSON or does not decode to an    *)
(* array, score() does not raise, runs no dimension check, and returns the *)
(* terminal Incorrect score with empty answer and the fixed explanation.   *)
C4_NonArrayTargetIsParseError ==
    NonArrayTarget =>
        /\ pc # "raised"
        /\ results = NoResults
        /\ pc = "done" =>
             /\ score.value = I
             /\ score.answer = EmptyAnswer
             /\ score.explanation =
                    <<TextLine("Scoring error", "Target parse error")>>

(* The part of C4 the code keeps: text that is not JSON gives the terminal *)
(* score.                                                                  *)
C4_BadTextIsParseError ==
    (~target.valid /\ pc # "start") =>
        /\ pc = "done"
        /\ results = NoResults
        /\ score = _error_score("Target parse error")

-----------------------------------------------------------------------------
(* Properties of _score_dimensions.                                        *)

DimsApplied == fn_out.fn = "_score_dimensions"

(* C5: for a well-formed expected list, any response type and any actual   *)
(* list of {name, arguments} calls, among them calls with a null name next *)
(* to calls with a string name and calls with _raw arguments, the six      *)
(* checks return verdicts and raise nothing.                               *)
C5_ChecksNeverRaise ==
    DimsApplied =>
        /\ fn_out.raised = NoException
        /\ \A d \in DimensionSet : fn_out.dims[d] \in {C, I, N}

(* actual is expected in another order.                                    *)
IsPermutation(xs, ys) ==
    /\ Len(xs) = Len(ys)
    /\ \E p \in [1..Len(xs) -> 1..Len(xs)] :
           /\ \A i, j \in 1..Len(xs) : p[i] = p[j] => i = j
           /\ \A i \in 1..Len(xs) : ys[i] = xs[p[i]]

(* C6: when the expected list has two or more calls and the actual list is *)
(* a permutation of it, tool_name and args are both Correct.               *)
C6_PermutationInvariance ==
    (DimsApplied /\ Len(fn_expected) >= 2
     /\ IsPermutation(fn_expected, fn_actual)) =>
        /\ fn_out.raised = NoException
        /\ fn_out.dims.tool_name = C
        /\ fn_out.dims.args = C

(* The part of C6 the code keeps: tool_name is Correct for every           *)
(* permutation.                                                            *)
C6_ToolNamePermutationInvariant ==
    (DimsApplied /\ Len(fn_expected) >= 2
     /\ IsPermutation(fn_expected, fn_actual)) =>
        /\ fn_out.raised = NoException
        /\ fn_out.dims.tool_name = C


-----------------------------------------------------------------------------
(* Properties of _tool_call_matches and of _check_arguments on one call.   *)

MatchApplied == fn_out.fn = "_tool_call_matches"
ArgsApplied == fn_out.fn = "_check_arguments"
Matched == fn_out.ret = "True"
NotMatched == fn_out.ret = "False"

ExpArgs == GetArguments(fn_expected)
ActArgs == GetArguments(fn_actual)
SameName == fn_expected.name = fn_actual.name

(* The only expected argument is key, and the actual call has a value of   *)
(* its own at key.                                                         *)
OnlyExpectedKey(key) == DOMAIN ExpArgs = {key}
ActualAt(key) == IF key \in DOMAIN ActArgs THEN ActArgs[key] ELSE PyNone

(* |v - a| in units of 1/Den.                                              *)
Distance(v, w) ==
    LET x == IF v.t = "int" THEN v.n * Den ELSE v.n
        y == IF w.t = "int" THEN w.n * Den ELSE w.n
    IN  IF x < y THEN y - x ELSE x - y

(* C7: with the same name and a number v as the only expected argument, a  *)
(* numeric actual value a matches when |v - a| <= 0.01 (so the int 75 and  *)
(* the float 75.0 match) and does not match when |v - a| >= 0.02.          *)
C7_NumericTolerance ==
    (MatchApplied /\ SameName /\ OnlyExpectedKey(NameKey)
     /\ ExpArgs[NameKey].t \in {"int", "float"}
     /\ ActualAt(NameKey).t \in {"int", "float"}) =>
        LET dist == Distance(ExpArgs[NameKey], ActualAt(NameKey))
        IN  /\ 100 * dist <= Den => Matched
            /\ 100 * dist >= 2 * Den => NotMatched

(* C7 witness: the int 75 against a float that is more than 0 and at most  *)
(* 0.01 away matches.                                                      *)
C7_Witness ==
    /\ MatchApplied /\ SameName /\ OnlyExpectedKey(NameKey)
    /\ ExpArgs[NameKey] = PyInt(Brightness)
    /\ ActualAt(NameKey).t = "float"
    /\ ActualAt(NameKey).n # Brightness * Den
    /\ 100 * Distance(ExpArgs[NameKey], ActualAt(NameKey)) <= Den
    /\ Matched

(* The text of a value, lower-cased, without the blanks around it.         *)
IsBlank(c) == c \in {" ", "\t", "\n", "\f", "\r"}
Trimmed(s) ==
    IF \A i \in 1..Len(s) : IsBlank(s[i]) THEN <<>>
    ELSE LET first == CHOOSE i \in 1..Len(s) :
                          ~IsBlank(s[i]) /\ \A j \in 1..(i - 1) : IsBlank(s[j])
             last == CHOOSE i \in 1..Len(s) :
                         ~IsBlank(s[i]) /\ \A j \in (i + 1)..Len(s) : IsBlank(s[j])
         IN  SubSeq(s, first, last)
Normalized(v) == Lower(Trimmed(Str(v)))

(* C8: an expected key <base>_any_of whose value is a sequence is          *)
(* satisfied iff the actual call has a non-null value at <base> whose      *)
(* normalized form is that of some element; an absent value or an empty    *)
(* sequence fails.  [A, B] matches b and does not match C.                 *)
C8_AnyOf ==
    (MatchApplied /\ SameName /\ OnlyExpectedKey(AnyOfKey)
     /\ ExpArgs[AnyOfKey].t = "list") =>
        LET elems == ExpArgs[AnyOfKey].xs
            act == ActualAt(NameKey)
        IN  /\ Matched <=>
                 /\ act # PyNone
                 /\ \E i \in 1..Len(elems) : Normalized(act) = Normalized(elems[i])
            /\ act = PyNone => NotMatched
            /\ elems = <<>> => NotMatched
            /\ (elems = <<A, B>> /\ act = b) => Matched
            /\ (elems = <<A, B>> /\ act = Cc) => NotMatched

(* C8 witness: [A, B] against the value " b ", matched after trimming and  *)
(* lower-casing.                                                           *)
C8_Witness ==
    /\ MatchApplied /\ SameName /\ OnlyExpectedKey(AnyOfKey)
    /\ ExpArgs[AnyOfKey] = PyList(<<A, B>>)
    /\ ActualAt(NameKey) = PaddedB
    /\ Matched

(* C9: an expected call with empty or missing arguments matches every      *)
(* actual call of the same name, whatever its arguments; calls whose names *)
(* differ never match.                                                     *)
C9_Wildcard ==
    MatchApplied =>
        /\ (SameName /\ DOMAIN ExpArgs = {}) => Matched
        /\ ~SameName => NotMatched

(* C9 witness: an expected call without an arguments key matched an actual *)
(* call that carries two arguments.                                        *)
C9_Witness ==
    /\ MatchApplied /\ SameName
    /\ ~fn_expected.has_arguments
    /\ Cardinality(DOMAIN ActArgs) = 2
    /\ Matched

(* C10: when some expected key that does not end in _any_of has no value   *)
(* in the actual call (absent or null), the match is False and the args    *)
(* dimension is Incorrect, whatever the other arguments are.               *)
C10_MissingArgumentFails ==
    (\E key \in DOMAIN ExpArgs :
         /\ key[Len(key)] # "_any_of"
         /\ ActualAt(key) = PyNone) =>
        /\ MatchApplied => NotMatched
        /\ ArgsApplied => fn_out.ret = I

(* C10 witness: the actual call has the other expected argument, equal to  *)
(* the expected one, lacks "name", and the args dimension is Incorrect.    *)
C10_Witness ==
    /\ ArgsApplied /\ SameName
    /\ DOMAIN ExpArgs = {NameKey, DomainKey}
    /\ DOMAIN ActArgs = {DomainKey}
    /\ ActArgs[DomainKey] = ExpArgs[DomainKey]
    /\ fn_out.ret = I

-----------------------------------------------------------------------------
(* Properties of the dimension checks, each called on its own.             *)

(* The call f(...) has returned.                                           *)
Applied(f) == fn_out.fn = f /\ fn_out.ret # "pending"

NameAt(i) == fn_actual[i].name

(* C11: no_hallucinated_tools is NotApplicable iff the actual list is      *)
(* empty, Correct iff it is non-empty and every name is in the allow-list, *)
(* and Incorrect as soon as some call's name is not in the allow-list, an  *)
(* empty or missing name included, whatever the arguments are.             *)
C11_Hallucination ==
    Applied("_check_no_hallucinated_tools") =>
        /\ fn_out.ret = N <=> fn_actual = <<>>
        /\ fn_out.ret = C <=>
               /\ fn_actual # <<>>
               /\ \A i \in 1..Len(fn_actual) : NameAt(i) \in VALID_TOOL_NAMES
        /\ (\E i \in 1..Len(fn_actual) : NameAt(i) \notin VALID_TOOL_NAMES)
               => fn_out.ret = I

(* The part of C11 the code keeps: a call with a non-empty name outside    *)
(* the allow-list gives Incorrect whatever the arguments, and an empty     *)
(* list gives NotApplicable.                                               *)
C11_NamedHallucination ==
    Applied("_check_no_hallucinated_tools") =>
        /\ fn_out.ret = N <=> fn_actual = <<>>
        /\ (\E i \in 1..Len(fn_actual) :
                NameAt(i) \notin VALID_TOOL_NAMES \cup {NullName, ""})
               => fn_out.ret = I

(* How many calls of a list carry the name.                                *)
Count(calls, name) == Cardinality({i \in 1..Len(calls) : calls[i].name = name})

(* The two lists hold the same names the same number of times.             *)
SameNameBag(xs, ys) ==
    \A name \in {xs[i].name : i \in 1..Len(xs)}
                 \cup {ys[i].name : i \in 1..Len(ys)} :
        Count(xs, name) = Count(ys, name)

(* C12: tool_name is NotApplicable iff expected is empty; with expected    *)
(* non-empty it is Incorrect when actual is empty, and otherwise, whenever *)
(* the check returns a verdict, Correct iff the expected names and the     *)
(* actual names are equal as multisets; one expected call against one      *)
(* actual call of another name is Incorrect.                               *)
C12_ToolName ==
    Applied("_check_tool_names") =>
        /\ fn_out.ret = N <=> fn_expected = <<>>
        /\ (fn_expected # <<>> /\ fn_actual = <<>>) => fn_out.ret = I
        /\ (fn_expected # <<>> /\ fn_actual # <<>> /\ fn_out.ret \in {C, I, N})
               => (fn_out.ret = C <=> SameNameBag(fn_expected, fn_actual))
        /\ (Len(fn_expected) = 1 /\ Len(fn_actual) = 1
             /\ fn_expected[1].name # NameAt(1)) => fn_out.ret = I

(* C12 witness: two expected names met in the other order give Correct.    *)
C12_Witness ==
    /\ Applied("_check_tool_names")
    /\ Len(fn_expected) = 2 /\ Len(fn_actual) = 2
    /\ fn_expected[1].name # fn_expected[2].name
    /\ NameAt(1) = fn_expected[2].name
    /\ NameAt(2) = fn_expected[1].name
    /\ fn_out.ret = C

(* C12, duplicates: the same set of names with another multiplicity is     *)
(* reached and judged Incorrect.                                           *)
C12_DuplicatesReached ==
    /\ Applied("_check_tool_names")
    /\ Len(fn_expected) = 2 /\ Len(fn_actual) = 1
    /\ fn_expected[1].name = fn_expected[2].name
    /\ NameAt(1) = fn_expected[1].name
    /\ fn_out.ret = I

(* The five query tools, spelled out.                                      *)
QueryToolNames ==
    {"HassGetState", "HassClimateGetTemperature", "HassGetWeather",
     "HassGetCurrentTime", "HassGetCurrentDate"}

(* The verdict the table gives for a response type and the actual calls.   *)
ResponseTypeVerdict(etype, actual) ==
    LET yes(cond) == IF cond THEN C ELSE I
    IN  IF etype = "action_done" THEN yes(Len(actual) > 0)
        ELSE IF etype = "query_response"
        THEN yes(\E i \in 1..Len(actual) : actual[i].name \in QueryToolNames)
        ELSE IF etype \in {"text_response", "error", "clarification"}
        THEN yes(Len(actual) = 0)
        ELSE N

(* C13: response_type is a function of the response-type string and the   *)
(* actual calls alone: action_done is Correct iff actual is non-empty,     *)
(* query_response iff some actual call is one of the five query tools,     *)
(* text_response, error and clarification iff actual is empty, and every   *)
(* other string gives NotApplicable, whatever the expected calls are.      *)
C13_ResponseType ==
    Applied("_check_response_type") =>
        fn_out.ret = ResponseTypeVerdict(fn_type, fn_actual)

(* C13 witness: a query_response answered by a query tool next to another  *)
(* call, with expected calls present, is Correct.                          *)
C13_Witness ==
    /\ Applied("_check_response_type")
    /\ fn_type = "query_response"
    /\ fn_expected # <<>>
    /\ Len(fn_actual) = 2
    /\ NameAt(1) \notin QueryToolNames
    /\ NameAt(2) \in QueryToolNames
    /\ fn_out.ret = C

(* C13, unknown strings: a string that is no response type is reached and *)
(* gives NotApplicable with actual calls present.                          *)
C13_UnknownReached ==
    /\ Applied("_check_response_type")
    /\ fn_type = "Action_Done"
    /\ fn_actual # <<>>
    /\ fn_out.ret = N

-----------------------------------------------------------------------------
(* Properties of format_valid inside score().                              *)

(* The call carries the _raw key: its arguments could not be parsed.       *)
IsRaw(call) == <<"_raw">> \in DOMAIN call.arguments
HasRaw(calls) == \E i \in 1..Len(calls) : IsRaw(calls[i])
NoName(call) == call.name = "" \/ call.name = NullName

(* The dimension results were computed (the primary's, or an adopted       *)
(* alternative's).                                                         *)
Scored == pc \in {"load", "alts", "explain", "done"} /\ target.valid

(* C14: format_valid is NotApplicable iff actual is empty, Incorrect iff   *)
(* actual is non-empty and some call has an empty or missing name or the   *)
(* key _raw in its arguments, Correct otherwise; and a sample whose actual *)
(* calls include a _raw call is scored Incorrect.                          *)
C14_FormatValid ==
    /\ Scored =>
          LET bad == \E i \in 1..Len(actual_calls) :
                         NoName(actual_calls[i]) \/ IsRaw(actual_calls[i])
          IN  /\ results.format_valid = N <=> actual_calls = <<>>
              /\ results.format_valid = I <=> (actual_calls # <<>> /\ bad)
              /\ results.format_valid = C <=> (actual_calls # <<>> /\ ~bad)
    /\ (Scored /\ HasRaw(actual_calls)) => overall = I
    /\ (Returned /\ HasRaw(actual_calls)) => score.value = I

(* C14 witness: the only actual call is an unparsed one that names the     *)
(* expected tool, an alternative was tried, and the Score is Incorrect.    *)
C14_Witness ==
    /\ Returned
    /\ Len(actual_calls) = 1
    /\ IsRaw(actual_calls[1])
    /\ target.value.kind = "list"
    /\ Len(target.value.items) = 1
    /\ target.value.items[1].name = actual_calls[1].name
    /\ alt_idx >= 2
    /\ results.format_valid = I
    /\ score.value = I

(* C14 on the check called alone, where the actual calls also include one  *)
(* whose name is the empty string.                                         *)
C14_FormatValidAlone ==
    Applied("_check_format_validity") =>
        LET bad == \E i \in 1..Len(fn_actual) :
                       NoName(fn_actual[i]) \/ IsRaw(fn_actual[i])
        IN  /\ fn_out.ret = N <=> fn_actual = <<>>
            /\ fn_out.ret = I <=> (fn_actual # <<>> /\ bad)
            /\ fn_out.ret = C <=> (fn_actual # <<>> /\ ~bad)

-----------------------------------------------------------------------------
(* Properties of call_count and of the empty-vs-empty sample.              *)

(* An alternative's results were adopted (break at line 77).               *)
Adopted == pc \in {"explain", "done"} /\ overall = C /\ alt_idx >= 1

(* The expected calls the current results were computed against.           *)
ScoredAgainst ==
    IF Adopted THEN CallsOf(alternatives[alt_idx]) ELSE target.value.items

EmptyVsEmpty == target = JsonText(JList(<<>>)) /\ actual_calls = <<>>

(* C15: call_count is Correct iff the expected and the actual list have    *)
(* the same length; when both are empty, call_count is Correct, tool_name, *)
(* args, format_valid and no_hallucinated_tools are NotApplicable, and     *)
(* overall is Correct exactly when response_type is Correct or             *)
(* NotApplicable: Incorrect under action_done and query_response, Correct  *)
(* under text_response, error, clarification and an unknown type.          *)
C15_CallCountAndEmpty ==
    (Scored /\ target.value.kind = "list") =>
        /\ results.call_count \in {C, I}
        /\ results.call_count = C <=> Len(ScoredAgainst) = Len(actual_calls)
        /\ EmptyVsEmpty =>
              /\ results.call_count = C
              /\ \A d \in {"tool_name", "args", "format_valid",
                            "no_hallucinated_tools"} : results[d] = N
              /\ overall = C <=> results.response_type \in {C, N}
              /\ expected_type \in {"action_done", "query_response"}
                    => overall = I
              /\ expected_type \in {"text_response", "error", "clarification",
                                    "status"} => overall = C
              /\ pc = "done" => score.value = overall

(* C15 witness: nothing expected, nothing called, a clarification: the     *)
(* Score returned is Correct.                                              *)
C15_Witness ==
    /\ Returned
    /\ EmptyVsEmpty
    /\ expected_type = "clarification"
    /\ results.call_count = C
    /\ score.value = C

(* C15, the failing side: nothing expected, nothing called, under          *)
(* query_response, with two alternatives tried, is returned Incorrect.     *)
C15_QueryReached ==
    /\ Returned
    /\ EmptyVsEmpty
    /\ expected_type = "query_response"
    /\ alt_idx = 3
    /\ score.value = I

-----------------------------------------------------------------------------
(* Properties of sequence-valued arguments.                                *)

(* The text of an element, lower-cased and not trimmed.                    *)
LowerText(v) == Lower(Str(v))

(* How many elements of xs have the lower-cased text t.                    *)
Occurrences(xs, t) == Cardinality({i \in 1..Len(xs) : LowerText(xs[i]) = t})

(* The lower-cased texts of xs and of ys are equal as multisets.           *)
SameTextBag(xs, ys) ==
    \A t \in {LowerText(xs[i]) : i \in 1..Len(xs)}
              \cup {LowerText(ys[i]) : i \in 1..Len(ys)} :
        Occurrences(xs, t) = Occurrences(ys, t)

BothLists ==
    /\ SameName /\ OnlyExpectedKey(NameKey)
    /\ ExpArgs[NameKey].t = "list"
    /\ ActualAt(NameKey).t = "list"

(* C16: when the expected and the actual value at a key are both           *)
(* sequences, the key is satisfied iff their elements, stringified and     *)
(* lower-cased but not trimmed, are equal as multisets: order does not     *)
(* matter, duplicates count, and different lengths never match.            *)
C16_SequenceArguments ==
    (MatchApplied /\ BothLists) =>
        LET xs == ExpArgs[NameKey].xs
            ys == ActualAt(NameKey).xs
        IN  /\ Matched <=> SameTextBag(xs, ys)
            /\ Len(xs) # Len(ys) => NotMatched
            /\ (xs = <<b>> /\ ys = <<PaddedB>>) => NotMatched

(* C16 witness: [A, B] against [b, A] matches: another order, another      *)
(* case.                                                                   *)
C16_Witness ==
    /\ MatchApplied /\ BothLists
    /\ ExpArgs[NameKey].xs = <<A, B>>
    /\ ActualAt(NameKey).xs = <<b, A>>
    /\ Matched

(* C16, stringified: the list holding the int 75 matches the list holding  *)
(* the text "75".                                                          *)
C16_StringifiedReached ==
    /\ MatchApplied /\ BothLists
    /\ ExpArgs[NameKey].xs = <<PyInt(Brightness)>>
    /\ ActualAt(NameKey).xs = <<Str75>>
    /\ Matched

-----------------------------------------------------------------------------
(* Properties of repeated invocations.                                     *)

Finished == pc \in {"done", "raised"}

(* C17: the second invocation on a sample gives the Score (verdict,        *)
(* serialized actual calls, explanation) or the exception the first one    *)
(* gave, whatever sample was scored in between; and an invocation leaves   *)
(* the sample it scores (target, actual calls, alternatives) as it was.    *)
C17_DeterministicAndIsolated ==
    /\ fn_type \in {"first", "second"} => CurrentSample = fn_expected
    /\ fn_type = "other" => CurrentSample \in OtherSamples
    /\ (fn_type = "second" /\ Finished) =>
          /\ score = fn_out.score
          /\ exception = fn_out.exception

(* C17 witness: the first sample was returned Correct by its second        *)
(* alternative twice, with another sample, itself judged by its            *)
(* alternatives, scored in between.                                        *)
C17_Witness ==
    /\ fn_type = "second"
    /\ pc = "done"
    /\ alt_idx = 2
    /\ score.value = C
    /\ score = fn_out.score
    /\ Len(fn_actual.raw.alts) = 2

-----------------------------------------------------------------------------
(* Properties of the explanation.                                          *)

(* The dimensions in the order the checklist prints them.                  *)
ChecklistOrder ==
    <<"response_type", "format_valid", "call_count", "tool_name", "args",
      "no_hallucinated_tools">>

(* The line renders the call as name(arguments).                           *)
Renders(line, call) ==
    /\ line.kind = "call"
    /\ line.name = call.name
    /\ line.arguments = (IF call.has_arguments THEN call.arguments
                         ELSE EmptyDict)

(* C18: the explanation of a Score built from dimension results is, in     *)
(* this order: the match-quality line; a reason line iff the reason is     *)
(* non-empty; "Expected n call(s):" and one line per expected call in list *)
(* order; "Got m call(s):" and one line per actual call in list order; an  *)
(* empty line and the "Checks:" header; then exactly one line per          *)
(* dimension in the fixed order, whose letter is C for Correct, I for      *)
(* Incorrect and - for NotApplicable.                                      *)
C18_ExplanationLayout ==
    (Returned /\ target.value.kind = "list") =>
        LET ex == score.explanation
            exp == target.value.items
            r == IF match_reason # "" THEN 1 ELSE 0
            n == Len(exp)
            m == Len(actual_calls)
            base == 3 + r + n + m
        IN  /\ Len(ex) = base + 2 + Len(ChecklistOrder)
            /\ ex[1].kind = "MATCH_QUALITY" /\ ex[1].text = match_quality
            /\ (\E i \in 1..Len(ex) : ex[i].kind = "MATCH_REASON")
                   <=> match_reason # ""
            /\ r = 1 => (ex[2].kind = "MATCH_REASON" /\ ex[2].text = match_reason)
            /\ ex[2 + r].kind = "Expected" /\ ex[2 + r].n = n
            /\ \A k \in 1..n : Renders(ex[2 + r + k], exp[k])
            /\ ex[3 + r + n].kind = "Got" /\ ex[3 + r + n].n = m
            /\ \A k \in 1..m : Renders(ex[3 + r + n + k], actual_calls[k])
            /\ ex[base + 1].kind = "blank"
            /\ ex[base + 2].kind = "Checks:"
            /\ \A d \in 1..Len(ChecklistOrder) :
                   LET line == ex[base + 2 + d]
                   IN  /\ line.kind = "check"
                       /\ line.name = ChecklistOrder[d]
                       /\ line.text = results[ChecklistOrder[d]]
                       /\ line.text = C => line.letter = "C"
                       /\ line.text = I => line.letter = "I"
                       /\ line.text = N => line.letter = "-"
                       /\ line.text \in {C, I, N}

(* C18 witness: an explanation with a reason line, two expected calls, one *)
(* actual call, and a checklist that shows both C and -.                   *)
C18_Witness ==
    /\ Returned
    /\ match_reason # ""
    /\ target.value.kind = "list"
    /\ Len(target.value.items) = 2
    /\ Len(actual_calls) = 1
    /\ \E i, j \in 1..Len(score.explanation) :
           /\ score.explanation[i].letter = "-"
           /\ score.explanation[j].letter = "C"

(* C18, a failed dimension: an explanation without a reason line whose     *)
(* checklist shows I is returned.                                          *)
C18_IncorrectReached ==
    /\ Returned
    /\ match_reason = ""
    /\ Len(actual_calls) = 2
    /\ \E i \in 1..Len(score.explanation) : score.explanation[i].letter = "I"

-----------------------------------------------------------------------------
(* Properties of load_ha_test_cases.                                       *)

LoadOver == dataset.status \notin {"start", "reading"}

(* The line is blank: nothing but whitespace (space, tab, newline, form    *)
(* feed, carriage return).                                                 *)
BlankLine(l) ==
    /\ l.kind = "text"
    /\ \A i \in 1..Len(l.chars) : l.chars[i] \in {" ", "\t", "\n", "\f", "\r"}

(* A complete case: an object with every required field.                   *)
CompleteCase(l) ==
    /\ l.kind = "object"
    /\ {"id", "utterance", "expected_tool_calls", "expected_response_type",
        "inventory_tier", "inventory_file"} \subseteq l.keys

(* A non-blank line that is not valid JSON or lacks a required field.      *)
BadLine(l) == ~BlankLine(l) /\ ~CompleteCase(l)

(* A line the tier filter lets through.                                    *)
Selected(l) ==
    /\ CompleteCase(l)
    /\ inventory_tier # "" => l.inventory_tier = inventory_tier

(* The numbers of the selected lines, in file order.                       *)
SelectedLines ==
    SelectSeq([i \in 1..Len(file.lines) |-> i],
              LAMBDA i : Selected(file.lines[i]))

(* The outcome the contract gives for the file and the tier.               *)
LoadContract ==
    LET ls == file.lines
        bad == {i \in 1..Len(ls) : BadLine(ls[i])}
    IN  IF ~file.exists THEN dataset.status = "FileNotFoundError"
        ELSE IF bad # {}
        THEN /\ dataset.status = "ValueError"
             /\ dataset.line = CHOOSE i \in bad : \A j \in bad : i <= j
             /\ dataset.message \in {"Invalid JSON", "Missing fields"}
        ELSE IF SelectedLines = <<>>
        THEN /\ dataset.status = "ValueError"
             /\ dataset.message = "No test cases loaded"
        ELSE /\ dataset.status = "returned"
             /\ Len(dataset.samples) = Len(SelectedLines)
             /\ \A k \in 1..Len(SelectedLines) :
                    /\ dataset.samples[k].id = ls[SelectedLines[k]].id
                    /\ dataset.samples[k].inventory_tier =
                           ls[SelectedLines[k]].inventory_tier
                    /\ inventory_tier # "" =>
                           dataset.samples[k].inventory_tier = inventory_tier

(* C19: load_ha_test_cases raises FileNotFoundError for a missing file,    *)
(* ValueError at the first non-blank line that is not valid JSON or lacks  *)
(* a required field (whatever its tier), ValueError when no sample         *)
(* remains, and otherwise returns one sample per selected line in file     *)
(* order; it never returns an empty dataset and returns nothing when it    *)
(* raises.                                                                 *)
C19_AllOrNothing ==
    LoadOver =>
        /\ LoadContract
        /\ dataset.status = "returned" => dataset.samples # <<>>
        /\ dataset.status # "returned" => dataset.samples = <<>>

(* The part of C19 the code keeps: the same for files whose JSON lines     *)
(* are all objects.                                                        *)
C19_ObjectLinesOnly ==
    (LoadOver /\ \A i \in 1..Len(file.lines) : file.lines[i].kind # "value") =>
        /\ LoadContract
        /\ dataset.status = "returned" => dataset.samples # <<>>
        /\ dataset.status # "returned" => dataset.samples = <<>>

(* The load departs from the contract exactly when it ends with the       *)
(* AttributeError of case.keys() on a line that is no object.              *)
C19_DivergesOnlyAtNonObject ==
    LoadOver => (dataset.status = "AttributeError" <=> ~LoadContract)

(* Reached: a file of three lines, the middle one filtered out, gives the  *)
(* two small cases in file order.                                          *)
C19_FilteredReached ==
    /\ dataset.status = "returned"
    /\ inventory_tier = "small"
    /\ Len(file.lines) = 3
    /\ Len(dataset.samples) = 2
    /\ dataset.samples[1].id # dataset.samples[2].id

(* Reached: a line of the other tier that lacks a field stops the load.    *)
C19_FieldCheckFirstReached ==
    /\ dataset.status = "ValueError"
    /\ dataset.message = "Missing fields"
    /\ inventory_tier = "small"
    /\ dataset.line = 2
    /\ file.lines[2].inventory_tier = "large"
    /\ samples # <<>>

(* Reached: a file whose only line is whitespace with a form feed is       *)
(* skipped whole and ends with "No test cases loaded".                     *)
C19_FormFeedLineReached ==
    /\ dataset.status = "ValueError"
    /\ dataset.message = "No test cases loaded"
    /\ Len(file.lines) = 1
    /\ BlankLine(file.lines[1])
    /\ \E i \in 1..Len(file.lines[1].chars) : file.lines[1].chars[i] = "\f"

(* Reached: the load ends with an AttributeError at a line that is valid   *)
(* JSON for something that is no object.                                   *)
C19_NonObjectReached ==
    /\ dataset.status = "AttributeError"
    /\ \E i \in 1..Len(file.lines) : file.lines[i].kind = "value"



-----------------------------------------------------------------------------
(* Properties of the inventory cache.                                      *)

PathOf(build) == FullPath(build.inventory_file, build.base_dir)

(* The caller kept the prompt of an earlier build and a later build, with  *)
(* no clear between the two, was for the same resolved path.               *)
BuiltAgain == p1 # NoBuild /\ p2 # NoBuild /\ PathOf(p2) = PathOf(p1)

(* The later build returned what the earlier one did, from the cache.      *)
ServedFromCache ==
    BuiltAgain =>
        /\ p2.raised = NoException
        /\ ~p2.opened
        /\ p2.prompt.entity_context = p1.prompt.entity_context
        /\ p2.include_timestamp = p1.include_timestamp => p2.prompt = p1.prompt

(* The keys are resolved absolute paths, one per file.                     *)
KeyedByResolvedPath ==
    /\ DOMAIN _inventory_cache \subseteq DOMAIN disk
    /\ \A full_path \in DOMAIN _inventory_cache :
           Resolve(AbsPath(full_path)) = full_path

(* A clear empties the cache; a build that finds no entry opens the file;  *)
(* a build that raises leaves the cache as it was.                         *)
CacheSteps ==
    /\ clear_inventory_cache => _inventory_cache' = <<>>
    /\ BuildStep =>
         /\ p2'.raised # NoException => _inventory_cache' = _inventory_cache
         /\ PathOf(p2') \notin DOMAIN _inventory_cache => p2'.opened
         /\ p2'.raised = NoException => PathOf(p2') \in DOMAIN _inventory_cache'

(* C20: over any sequence of builds and clears, a build for the resolved   *)
(* path of an earlier build, with no clear between them, returns the same  *)
(* prompt (for the same include_timestamp) from the cache without opening  *)
(* the file, even if the file changed; the keys are resolved absolute      *)
(* paths, so spellings of one file share an entry; a clear removes every   *)
(* entry and the next build opens the file; a build that raises leaves the *)
(* cache unchanged.                                                        *)
C20_InventoryCache ==
    /\ [](ServedFromCache /\ KeyedByResolvedPath)
    /\ [][CacheSteps]_vars

(* C20 witness: the file was rewritten after the first build, the second   *)
(* build spelled it differently, did not open it and returned the first    *)
(* prompt, which is not what the file now holds.                           *)
C20_Witness ==
    /\ BuiltAgain
    /\ p2.inventory_file # p1.inventory_file
    /\ p2.include_timestamp = p1.include_timestamp
    /\ p2.prompt = p1.prompt
    /\ ~p2.opened
    /\ disk[PathOf(p1)] = LightOff
    /\ p1.prompt.entity_context =
           FormatEntities(LightOn.entities, AreaNames(LightOn.areas))

(* A build raised and the cache kept the entry of the other file.          *)
C20_FailedBuildReached ==
    /\ p2.raised = "KeyError"
    /\ DOMAIN _inventory_cache = {SubPath}


-----------------------------------------------------------------------------
(* Properties of the greedy scan of _check_arguments.                      *)

(* A one-to-one pairing of the expected calls with the actual calls in     *)
(* which every pair satisfies _tool_call_matches.                          *)
MatchingExists(expected, actual) ==
    /\ Len(expected) = Len(actual)
    /\ \E p \in [1..Len(expected) -> 1..Len(actual)] :
           /\ \A i, j \in 1..Len(expected) : p[i] = p[j] => i = j
           /\ \A i \in 1..Len(expected) :
                  _tool_call_matches(expected[i], actual[p[i]])

ArgsVerdict == fn_out.dims.args

(* C21: whenever the checks return and args is Correct, a one-to-one       *)
(* pairing of expected and actual calls exists in which every pair         *)
(* matches (the scan is sound); when no such pairing exists for a          *)
(* non-empty expected list, args is Incorrect.  The converse fails: see    *)
(* C21_Witness.                                                            *)
C21_GreedySound ==
    (DimsApplied /\ fn_out.raised = NoException) =>
        /\ ArgsVerdict = C => MatchingExists(fn_expected, fn_actual)
        /\ (fn_expected # <<>> /\ ~MatchingExists(fn_expected, fn_actual))
               => ArgsVerdict = I

(* C21 witness (the scan is not complete): two expected and two actual     *)
(* calls have a pairing in which every pair matches, and args is           *)
(* Incorrect, the first expected call having taken the only actual call    *)
(* the second one matches.                                                 *)
C21_Witness ==
    /\ DimsApplied
    /\ fn_out.raised = NoException
    /\ Len(fn_expected) = 2
    /\ MatchingExists(fn_expected, fn_actual)
    /\ ArgsVerdict = I
    /\ _tool_call_matches(fn_expected[1], fn_actual[1])
    /\ ~_tool_call_matches(fn_expected[2], fn_actual[2])
    /\ \A j \in 1..2 : _tool_call_matches(fn_expected[2], fn_actual[j]) => j = 1

(* args is Correct for two calls given in the other order.                 *)
C21_SoundReached ==
    /\ DimsApplied
    /\ Len(fn_expected) = 2
    /\ ArgsVerdict = C
    /\ ~_tool_call_matches(fn_expected[1], fn_actual[1])


-----------------------------------------------------------------------------
(* Properties of the order of the steps of score().                        *)

(* What _score_dimensions gives for the decoded target.                    *)
PrimaryDims == _score_dimensions(target.value, actual_calls, expected_type)

PrimaryPassed ==
    /\ target.valid
    /\ PrimaryDims.raised = NoException
    /\ AllApplicableCorrect(PrimaryDims.dims)

(* The alternatives metadata has been read, decoded or scored.             *)
AlternativesRead ==
    \/ pc \in {"load", "alts"}
    \/ alt_idx >= 1
    \/ alternatives # <<>>
    \/ exception = JSONDecodeError

(* C22: within one sample, nothing of the alternatives is read before the  *)
(* primary results are computed, and only if their aggregate is Incorrect; *)
(* when the primary passes, overall is Correct with quality "optimal" and  *)
(* no reason whatever the alternatives metadata holds, an undecodable      *)
(* string included; no alternative after the first passing one is scored;  *)
(* the explanation exists only once the Score is returned and is built     *)
(* from the final results, quality and reason.                             *)
C22_OrderWithinSample ==
    /\ pc \in {"start", "primary"} =>
           results = NoResults /\ ~AlternativesRead
    /\ AlternativesRead =>
           /\ target.valid
           /\ PrimaryDims.raised = NoException
           /\ ~AllApplicableCorrect(PrimaryDims.dims)
    /\ pc \in {"load", "alts"} =>
           /\ results = PrimaryDims.dims
           /\ overall = I
           /\ match_quality = "optimal"
           /\ match_reason = ""
    /\ (PrimaryPassed /\ pc \notin {"start", "primary"}) =>
           /\ results = PrimaryDims.dims
           /\ overall = C
           /\ match_quality = "optimal"
           /\ match_reason = ""
           /\ target.value.kind = "list" => pc \in {"explain", "done"}
           /\ pc = "done" => score.value = C
    /\ alt_idx >= 1 => \A k \in PassingAlts : alt_idx <= k
    /\ pc # "done" => score = NoScore
    /\ (pc = "done" /\ target.valid) =>
           /\ score.value = overall
           /\ score.explanation =
                  _build_explanation(expected_calls, actual_calls, results,
                                     match_quality, match_reason).lines

(* C22 witness: the primary set passed, the alternatives metadata is a     *)
(* string that does not decode, and the Score is Correct and optimal.      *)
C22_Witness ==
    /\ PrimaryPassed
    /\ raw = RawBadStr
    /\ pc = "done"
    /\ score.value = C
    /\ score.explanation[1] = TextLine("MATCH_QUALITY", "optimal")
    /\ actual_calls # <<>>

(* The first of two passing alternatives was adopted and the second never  *)
(* scored.                                                                 *)
C22_SecondNotScoredReached ==
    /\ pc = "done"
    /\ Cardinality(PassingAlts) = 2
    /\ alt_idx = 1


-----------------------------------------------------------------------------
(* Properties of the allow-list and the tool tiers.                        *)

NamesOf(tier) ==
    LET ts == get_ha_intent_tools(tier).tools
    IN  {ts[k] : k \in 1..Len(ts)}

FullOnly == NamesOf("full") \ NamesOf("mvp")

(* The primary results of score() exist.                                   *)
PrimaryScored == pc \in {"load", "alts", "explain", "done"} /\ target.valid

CallsFullOnly == \E i \in 1..Len(actual_calls) : actual_calls[i].name \in FullOnly

(* C23: the allow-list is a constant of exactly 11 names, the names of     *)
(* get_ha_intent_tools("mvp"); the full tier has 31 tools, 20 of them      *)
(* outside the allow-list; whatever tier the task exposes, the verdict is  *)
(* the one the constant gives, so under the full tier an actual call to a  *)
(* full-only tool gives no_hallucinated_tools Incorrect and overall        *)
(* Incorrect, and the returned Score is Incorrect.                         *)
C23_FixedAllowList ==
    /\ Cardinality(VALID_TOOL_NAMES) = 11
    /\ VALID_TOOL_NAMES = NamesOf("mvp")
    /\ Len(get_ha_intent_tools("mvp").tools) = 11
    /\ Len(get_ha_intent_tools("full").tools) = 31
    /\ Cardinality(FullOnly) = 20
    /\ FullOnly \cap VALID_TOOL_NAMES = {}
    /\ PrimaryScored =>
           /\ results.no_hallucinated_tools \in {C, I, N}
           /\ (results.no_hallucinated_tools = C) <=>
                  /\ actual_calls # <<>>
                  /\ \A i \in 1..Len(actual_calls) :
                         actual_calls[i].name \in VALID_TOOL_NAMES
           /\ (tool_tier = "full" /\ CallsFullOnly) =>
                  /\ results.no_hallucinated_tools = I
                  /\ overall = I
                  /\ pc = "done" => score.value = I

(* C23 witness: under the full tier the sample expects HassMediaPause, the *)
(* model called it, tool_name and args are Correct, and the Score is       *)
(* Incorrect because of no_hallucinated_tools alone.                       *)
C23_Witness ==
    /\ tool_tier = "full"
    /\ pc = "done"
    /\ target = JsonText(JList(<<Call(MediaPause, EmptyDict)>>))
    /\ actual_calls = <<Call(MediaPause, EmptyDict)>>
    /\ results.tool_name = C
    /\ results.args = C
    /\ results.no_hallucinated_tools = I
    /\ \A d \in DimensionSet \ {"no_hallucinated_tools"} : results[d] \in {C, N}
    /\ score.value = I


-----------------------------------------------------------------------------
(* Properties that tie the dimensions together.                            *)

DimsReturned == DimsApplied /\ fn_out.raised = NoException

(* C24: in every dict of results _score_dimensions returns, args Correct   *)
(* implies tool_name Correct and tool_name Correct implies call_count      *)
(* Correct; and when the expected list is non-empty and the two lists      *)
(* differ in length, call_count, tool_name and args are all Incorrect.     *)
C24_ImplicationChain ==
    DimsReturned =>
        /\ fn_out.dims.args = C => fn_out.dims.tool_name = C
        /\ fn_out.dims.tool_name = C => fn_out.dims.call_count = C
        /\ (fn_expected # <<>> /\ Len(fn_expected) # Len(fn_actual)) =>
               /\ fn_out.dims.call_count = I
               /\ fn_out.dims.tool_name = I
               /\ fn_out.dims.args = I

(* C24 witness: two calls in the other order, with args, tool_name and     *)
(* call_count all Correct.                                                 *)
C24_Witness ==
    /\ DimsReturned
    /\ Len(fn_expected) = 2
    /\ Len(fn_actual) = 2
    /\ fn_expected[1].name # fn_expected[2].name
    /\ fn_actual[1].name = fn_expected[2].name
    /\ fn_out.dims.args = C
    /\ fn_out.dims.tool_name = C
    /\ fn_out.dims.call_count = C

(* The names agree and the arguments do not: tool_name Correct, args       *)
(* Incorrect.                                                              *)
C24_NamesOnlyReached ==
    /\ DimsReturned
    /\ fn_out.dims.tool_name = C
    /\ fn_out.dims.args = I

(* One call expected, two made, the expected one among them: the three     *)
(* dimensions are Incorrect.                                               *)
C24_LengthsDifferReached ==
    /\ DimsReturned
    /\ Len(fn_expected) = 1
    /\ Len(fn_actual) = 2
    /\ fn_actual[1] = fn_expected[1]
    /\ fn_out.dims.call_count = I
    /\ fn_out.dims.tool_name = I
    /\ fn_out.dims.args = I


-----------------------------------------------------------------------------
(* Properties of the dimensions that do not look at the expected calls.    *)

ExpectedIndependent == {"response_type", "format_valid", "no_hallucinated_tools"}

(* What _score_dimensions gives for the k-th alternative.                  *)
AltDims(k) == DimsFor(CallsOf(raw.alts[k]))

PrimaryIndependentFailure ==
    \E d \in ExpectedIndependent : PrimaryDims.dims[d] = I

NoCallTypes == {"text_response", "error", "clarification"}

(* The three verdicts of alt, when it has any, are those of primary.       *)
SameIndependent(alt, primary) ==
    alt.raised = NoException =>
        \A d \in ExpectedIndependent : alt.dims[d] = primary[d]

(* What C25 says of a state whose primary results are primary.             *)
NoRescueGiven(primary) ==
    /\ \A k \in 1..Len(raw.alts) : SameIndependent(AltDims(k), primary)
    /\ \A d \in ExpectedIndependent : results[d] = primary[d]
    /\ (\E d \in ExpectedIndependent : primary[d] = I) =>
           /\ PassingAlts = {}
           /\ overall = I
           /\ results = primary
           /\ match_quality = "optimal"
           /\ match_reason = ""
           /\ pc = "done" => score.value = I
    /\ (actual_calls # <<>> /\ expected_type \in NoCallTypes) =>
           /\ results.response_type = I
           /\ overall = I

(* C25: response_type, format_valid and no_hallucinated_tools have the     *)
(* same verdict against the primary set and against every alternative;     *)
(* when one of them is Incorrect for the primary, no alternative passes or *)
(* is adopted, overall stays Incorrect with the primary's results, and a   *)
(* returned Score is Incorrect; so a non-empty actual list under           *)
(* text_response, error or clarification is always Incorrect.              *)
C25_NoRescue == PrimaryScored => NoRescueGiven(PrimaryDims.dims)

(* C25 witness: the alternative lists exactly the call that was made and   *)
(* would pass on call_count, tool_name and args, but the response type     *)
(* wants no call: both alternatives were scored, none adopted, and the     *)
(* Score is Incorrect.                                                     *)
C25_Witness ==
    /\ pc = "done"
    /\ expected_type \in NoCallTypes
    /\ actual_calls = <<Call("HassTurnOn", EmptyDict)>>
    /\ Len(raw.alts) = 2
    /\ AltDims(2).dims.call_count = C
    /\ AltDims(2).dims.tool_name = C
    /\ AltDims(2).dims.args = C
    /\ alt_idx = 3
    /\ score.value = I

(* The same for format_valid: the call's arguments could not be parsed.    *)
C25_FormatReached ==
    /\ pc = "done"
    /\ expected_type = "action_done"
    /\ actual_calls = <<_tc_to_dict(Unparsed)>>
    /\ Len(raw.alts) = 2
    /\ results.format_valid = I
    /\ AltDims(2).dims.args = C
    /\ score.value = I

(* An alternative does rescue a failure of the dimensions that look at the *)
(* expected calls.                                                         *)
C25_RescueReached ==
    /\ pc = "done"
    /\ ~PrimaryIndependentFailure
    /\ alt_idx = 2
    /\ score.value = C


-----------------------------------------------------------------------------
(* Properties of the explanation of an adopted alternative.                *)

(* score() returned a Score for which an alternative was adopted.          *)
AdoptedReturned ==
    /\ pc = "done"
    /\ target.valid
    /\ alt_idx >= 1
    /\ score.value = C

(* The lines from "Expected n call(s):" up to, not including, "Got".       *)
ExpectedSection(ex) ==
    LET from == CHOOSE i \in 1..Len(ex) : ex[i].kind = "Expected"
        to == CHOOSE i \in 1..Len(ex) : ex[i].kind = "Got"
    IN  SubSeq(ex, from, to - 1)

(* C26: when an alternative is adopted, the Expected section of the        *)
(* explanation is the count and the calls of the primary expected list,    *)
(* the Checks section shows the results of the adopted alternative, all    *)
(* of them Correct or NotApplicable, and the primary list shown fails      *)
(* against the actual calls.                                               *)
C26_ExplanationShowsPrimary ==
    AdoptedReturned =>
        LET primary == target.value
            adopted == raw.alts[alt_idx]
            checks == PrintedChecks(score)
        IN  /\ ExpectedSection(score.explanation) =
                   <<CountLine("Expected", primary.size)>>
                       \o CallLines(primary.items)
            /\ \A d \in 1..Len(Dimensions) :
                   /\ checks[d].name = Dimensions[d]
                   /\ checks[d].text = DimsFor(CallsOf(adopted)).dims[Dimensions[d]]
                   /\ checks[d].text \in {C, N}
            /\ PrimaryDims.raised = NoException
            /\ ~AllApplicableCorrect(PrimaryDims.dims)
            /\ score.explanation[1] = TextLine("MATCH_QUALITY", QualityOf(adopted))

(* C26 witness: the explanation lists an expected call of another name     *)
(* than the only actual call, next to a tool_name check that is Correct.   *)
C26_Witness ==
    /\ AdoptedReturned
    /\ Len(target.value.items) = 1
    /\ Len(actual_calls) = 1
    /\ target.value.items[1].name # actual_calls[1].name
    /\ CallsOf(raw.alts[alt_idx]) # target.value.items
    /\ ExpectedSection(score.explanation) =
           <<CountLine("Expected", 1), CallLine(target.value.items[1])>>
    /\ \E i \in 1..Len(score.explanation) :
           /\ score.explanation[i].kind = "check"
           /\ score.explanation[i].name = "tool_name"
           /\ score.explanation[i].letter = "C"


-----------------------------------------------------------------------------
(* Properties of an _any_of key whose value is no list.                    *)

(* The only expected argument is name_any_of and its value is no list.     *)
ScalarAnyOf ==
    /\ SameName
    /\ OnlyExpectedKey(AnyOfKey)
    /\ ExpArgs[AnyOfKey].t # "list"

(* C27: an expected key ending in _any_of whose value is not a list is     *)
(* satisfied by every actual value at the base key that is not None,       *)
(* whatever the expected value is, and fails only when the actual call has *)
(* no value or None at the base key; the args dimension follows.           *)
C27_ScalarAnyOfIsPresence ==
    ScalarAnyOf =>
        /\ MatchApplied => (Matched <=> ActualAt(NameKey) # PyNone)
        /\ MatchApplied => (NotMatched <=> ActualAt(NameKey) = PyNone)
        /\ ArgsApplied =>
               fn_out.ret = (IF ActualAt(NameKey) # PyNone THEN C ELSE I)

(* C27 witness: name_any_of is the string "A", the actual name is a number *)
(* and the match is True.                                                  *)
C27_Witness ==
    /\ MatchApplied
    /\ ScalarAnyOf
    /\ ExpArgs[AnyOfKey] = A
    /\ ActualAt(NameKey).t = "float"
    /\ Matched

(* The key fails when the actual call has None at the base key.            *)
C27_AbsentReached ==
    /\ MatchApplied
    /\ ScalarAnyOf
    /\ NameKey \in DOMAIN ActArgs
    /\ ActArgs[NameKey] = PyNone
    /\ NotMatched

(* An empty list, which is falsy and not None, satisfies the key.          *)
C27_FalsyValueReached ==
    /\ ArgsApplied
    /\ ScalarAnyOf
    /\ ExpArgs[AnyOfKey] = PyNone
    /\ ActualAt(NameKey) = PyList(<<>>)
    /\ fn_out.ret = C

=============================================================================
